---------------------------- MODULE Spec2Model ----------------------------
(***************************************************************************)
(* Request orchestration engine of the rSearch arXiv client               *)
(* (src/src/arxiv/client.ts, second revision in the file, lines 389-1031, *)
(* src/src/arxiv/rateLimiter.ts, src/src/arxiv/query.ts).                  *)
(*                                                                         *)
(* One call stream drives the clients: a public operation runs from its   *)
(* call to its return before the next one starts.  Time is the value of   *)
(* Date.now(); it advances only at the suspension points of the code      *)
(* (timer waits, network round trips) and between two operations; disk    *)
(* I/O takes no time on the millisecond clock.                            *)
(***************************************************************************)
EXTENDS Integers, Sequences, FiniteSets, TLC

(***************************************************************************)
(* Bounds of the model                                                     *)
(***************************************************************************)
MaxClock == 2012      \* largest value of Date.now() explored
MaxOps == 2           \* public operations per behaviour
MaxLatency == 1       \* largest duration of one network round trip
MaxBase == 3          \* largest retryBaseDelayMs given to computeBackoffDelay
MaxAttempt == 5       \* largest attempt index given to computeBackoffDelay
MaxLate == 1          \* largest lateness of a timer callback
MaxGap == 3           \* largest idle time between two operations
MaxIds == 2           \* identifiers per download call
MaxEntries == 2       \* entries the provider puts into one page
MaxPathLen == 4        \* length of the identifiers built from path characters
MaxTotal == 3         \* largest totalResults the provider reports
MaxTurns == 2         \* turns of the retry loop each concurrent caller makes
MaxTokens == 3        \* pieces an identifier given to normalizeArxivId is made of
MaxBaseParams == 2    \* query parameters the base URL given to buildQuery carries
MaxGiven == 2         \* keys of the partial configuration given to the constructor

(***************************************************************************)
(* Generic helpers                                                         *)
(***************************************************************************)
Max(a, b) == IF a >= b THEN a ELSE b
Min(a, b) == IF a <= b THEN a ELSE b
NoTimer == -1

RECURSIVE Pow2(_)
Pow2(n) == IF n = 0 THEN 1 ELSE 2 * Pow2(n - 1)

(***************************************************************************)
(* Strings are sequences of one-character strings.                         *)
(***************************************************************************)
Lower(c) ==
  CASE c = "A" -> "a" [] c = "R" -> "r" [] c = "X" -> "x" [] c = "I" -> "i"
    [] c = "V" -> "v" [] c = "P" -> "p" [] c = "D" -> "d" [] c = "F" -> "f"
    [] OTHER -> c
LowerStr(s) == [i \in 1..Len(s) |-> Lower(s[i])]
IsSpace(c) == c = " "
Drop(s, n) == SubSeq(s, n + 1, Len(s))
Take(s, n) == SubSeq(s, 1, n)
StartsWithCI(s, p) == Len(s) >= Len(p) /\ LowerStr(Take(s, Len(p))) = p
EndsWithCI(s, p) == Len(s) >= Len(p) /\ LowerStr(Drop(s, Len(s) - Len(p))) = p

\* String.prototype.trim
RECURSIVE TrimLeft(_)
TrimLeft(s) == IF s # << >> /\ IsSpace(s[1]) THEN TrimLeft(Tail(s)) ELSE s
RECURSIVE TrimRight(_)
TrimRight(s) ==
  IF s # << >> /\ IsSpace(s[Len(s)]) THEN TrimRight(Take(s, Len(s) - 1)) ELSE s
Trim(s) == TrimRight(TrimLeft(s))

\* .replace(/^arxiv:/i, "")
StripScheme(s) ==
  IF StartsWithCI(s, <<"a", "r", "x", "i", "v", ":">>) THEN Drop(s, 6) ELSE s

\* .replace(/^https?:\/\/(?:www\.)?arxiv\.org\/(?:abs|pdf)\//i, "")
HostPath == <<"a", "r", "x", "i", "v", ".", "o", "r", "g", "/">>
StripAbsOrPdf(s, rest) ==
  IF StartsWithCI(rest, <<"a", "b", "s", "/">>) \/ StartsWithCI(rest, <<"p", "d", "f", "/">>)
  THEN Drop(rest, 4) ELSE s
StripHost(s, rest) ==
  IF StartsWithCI(rest, <<"w", "w", "w", ".">> \o HostPath)
  THEN StripAbsOrPdf(s, Drop(rest, 14))
  ELSE IF StartsWithCI(rest, HostPath) THEN StripAbsOrPdf(s, Drop(rest, 10))
  ELSE s
StripUrlPrefix(s) ==
  IF StartsWithCI(s, <<"h", "t", "t", "p", "s", ":", "/", "/">>) THEN StripHost(s, Drop(s, 8))
  ELSE IF StartsWithCI(s, <<"h", "t", "t", "p", ":", "/", "/">>) THEN StripHost(s, Drop(s, 7))
  ELSE s

\* .replace(/[?#].*$/, "")
StripQueryFragment(s) ==
  LET hits == {i \in 1..Len(s) : s[i] \in {"?", "#"}}
  IN IF hits = {} THEN s
     ELSE Take(s, (CHOOSE i \in hits : \A j \in hits : i <= j) - 1)

\* .replace(/\.pdf$/i, "")
StripPdfSuffix(s) ==
  IF EndsWithCI(s, <<".", "p", "d", "f">>) THEN Take(s, Len(s) - 4) ELSE s

\* .replace(/\/+$/, "") and .replace(/^\/+/, "")
RECURSIVE StripTrailingSlashes(_)
StripTrailingSlashes(s) ==
  IF s # << >> /\ s[Len(s)] = "/" THEN StripTrailingSlashes(Take(s, Len(s) - 1)) ELSE s
RECURSIVE StripLeadingSlashes(_)
StripLeadingSlashes(s) ==
  IF s # << >> /\ s[1] = "/" THEN StripLeadingSlashes(Tail(s)) ELSE s

\* .replace(/\s+/g, "")
RECURSIVE RemoveWhitespace(_)
RemoveWhitespace(s) ==
  IF s = << >> THEN << >>
  ELSE IF IsSpace(s[1]) THEN RemoveWhitespace(Tail(s))
  ELSE <<s[1]>> \o RemoveWhitespace(Tail(s))

normalizeArxivId(id) ==
  RemoveWhitespace(StripLeadingSlashes(StripTrailingSlashes(StripPdfSuffix(
    StripQueryFragment(StripUrlPrefix(StripScheme(Trim(id))))))))

SafeChars ==
  {"a", "b", "c", "e", "x", "r", "i", "v", "p", "d", "f", "o", "g", "s", "h", "t", "w",
   "A", "X", "P", "D", "F", "0", "1", "2", ".", "_", "-"}
ReplaceUnsafe(s) == [i \in 1..Len(s) |-> IF s[i] \in SafeChars THEN s[i] ELSE "_"]
\* line 497 without the replacement of the other characters
toSafeFileStemRaw(id) ==
  LET stem == normalizeArxivId(id)
  IN IF stem # << >> THEN stem ELSE <<"p", "a", "p", "e", "r">>
\* lines 496-499
toSafeFileStem(id) ==
  LET stem == ReplaceUnsafe(normalizeArxivId(id))
  IN IF stem # << >> THEN stem ELSE <<"p", "a", "p", "e", "r">>

\* node:path resolve(outputDir, filename): the segments of filename are
\* appended to those of the directory; "." is dropped and ".." pops.
RECURSIVE SplitPath(_, _)
SplitPath(s, cur) ==
  IF s = << >> THEN (IF cur = << >> THEN << >> ELSE <<cur>>)
  ELSE IF s[1] = "/" THEN (IF cur = << >> THEN << >> ELSE <<cur>>) \o SplitPath(Tail(s), << >>)
  ELSE SplitPath(Tail(s), cur \o <<s[1]>>)
RECURSIVE Collapse(_, _)
Collapse(segs, acc) ==
  IF segs = << >> THEN acc
  ELSE IF segs[1] = <<".">> THEN Collapse(Tail(segs), acc)
  ELSE IF segs[1] = <<".", ".">>
       THEN Collapse(Tail(segs), IF acc = << >> THEN acc ELSE Take(acc, Len(acc) - 1))
  ELSE Collapse(Tail(segs), acc \o <<segs[1]>>)
resolve(dir, name) == Collapse(SplitPath(name, << >>), dir)

OutputDir == <<<<"o", "u", "t">>>>
PdfExt == <<".", "p", "d", "f">>

(***************************************************************************)
(* Program constants                                                       *)
(***************************************************************************)
DEFAULT_PAGE_SIZE == 100
MAX_PAGE_SIZE == 2000
MAX_TOTAL_RESULTS == 30000
MsPerSecond == 1000
BackoffCapFactor == 16
StartClock == 10      \* Date.now() when the first client is constructed

Clients == {1, 2}

(***************************************************************************)
(* Values: optional numbers, errors, responses                             *)
(***************************************************************************)
Undef == [t |-> "undefined"]
Num(n) == [t |-> "int", v |-> n]
Frac == [t |-> "fraction"]              \* a finite non-integer number such as 1.5
IsDef(x) == x.t # "undefined"
IsInt(x) == x.t = "int"

\* An Error: its name, its message and, for a ResponseError, the status the
\* message starts with (the message is `${status} ${statusText}`).
NoError == [name |-> "none", status |-> 0, message |-> ""]
MkError(name, message) == [name |-> name, status |-> 0, message |-> message]

StatusText(status) ==
  CASE status = 200 -> "OK"
    [] status = 400 -> "Bad Request"
    [] status = 408 -> "Request Timeout" [] status = 429 -> "Too Many Requests"
    [] status = 500 -> "Server Error" [] status = 599 -> "Network Connect Timeout"
    [] OTHER -> ""
\* class ResponseError: message `${status} ${statusText}`
ResponseError(status, statusText) ==
  [name |-> "ResponseError", status |-> status, message |-> statusText]

Statuses == {200, 400, 408, 429, 500, 599}
ResponseOk(status) == status >= 200 /\ status <= 299

\* Retry-After header values: absent, a number of seconds, an HTTP date, junk
NoHeader == [h |-> "absent"]
SecondsHeader(n) == [h |-> "seconds", v |-> n]
DateHeader(at) == [h |-> "date", v |-> at]
JunkHeader == [h |-> "junk"]

NoResult == [t |-> "none"]
Value(v) == [t |-> "value", v |-> v]
Thrown(e) == [t |-> "error", e |-> e]

(***************************************************************************)
(* Pure helpers of client.ts                                               *)
(***************************************************************************)
shouldRetryNo408(status) == status = 429 \/ status >= 500
shouldRetryAlso400(status) == status = 400 \/ status = 408 \/ status = 429 \/ status >= 500
shouldRetry(status) == status = 408 \/ status = 429 \/ status >= 500

isRetryableError(error) ==
  IF error.name = "ResponseError" THEN FALSE
  ELSE error.name = "AbortError" \/ error.name = "TypeError"

\* null is NoTimer; otherwise the delay in milliseconds
parseRetryAfter(value, clock) ==
  CASE value.h = "absent" -> NoTimer
    [] value.h = "seconds" -> Max(0, value.v * MsPerSecond)
    [] value.h = "date" -> (IF value.v - clock > 0 THEN value.v - clock ELSE 0)
    [] OTHER -> NoTimer

\* Math.floor(Math.random() * baseDelayMs) ranges over 0..baseDelayMs-1
Jitters(baseDelayMs) == 0..Max(baseDelayMs - 1, 0)
\* lines 988-993 with exp left uncapped
computeBackoffDelayUncapped(baseDelayMs, attempt, jitter) ==
  baseDelayMs * Pow2(attempt) + jitter
computeBackoffDelay(baseDelayMs, attempt, jitter) ==
  LET maxDelay == baseDelayMs * BackoffCapFactor
      exp == Min(maxDelay, baseDelayMs * Pow2(attempt))
  IN exp + jitter

cacheFilenameForUrl(url) == <<"sha256", url>>

buildPdfUrl(baseUrl, id) == [kind |-> "pdf", base |-> baseUrl, ref |-> id]

(***************************************************************************)
(* State                                                                   *)
(***************************************************************************)
VARIABLES
  now,          \* Date.now()
  env,          \* what the network and the timers may do in this run
  cfg,          \* cfg[c]: the resolved configuration of client c
  lastRun,      \* lastRun[c]: RateLimiter.lastRun of client c
  cache,        \* cache[c]: the memory map of client c, url -> text
  disk,         \* the cache directory: file name -> [payload, mtimeMs]
  files,        \* the output directory: path -> [by, at] of the last write
  pc,           \* position of the running public operation
  op,           \* the running (or last) public operation and its arguments
  ops,          \* number of public operations started
  result,       \* what the last public operation returned or threw
  loc,          \* local variables of search / download
  rpc,          \* position inside requestWithRetry
  attempt,      \* requestWithRetry: attempt
  lastError,    \* requestWithRetry: lastError
  rurl,         \* requestWithRetry: url
  timerAt,      \* due time of the pending setTimeout of the call stream
  rresult,      \* what requestWithRetry returned or threw
  tries,        \* outcomes of the fetch calls of the running requestWithRetry
  netCalls,     \* fetch calls issued by the running public operation
  waits,        \* returns of RateLimiter.wait during the running public operation
  settled,      \* fetch calls of the running public operation that resolved or rejected
  waitReturns,  \* times of the last two returns of RateLimiter.wait, per client
  fetchStarts,  \* times of the last two fetch calls, per client
  hist,         \* bookkeeping of the running operation used by the properties
  cli           \* the download command of cli.ts: its position and local variables

vars == <<now, env, cli, cfg, lastRun, cache, disk, files, pc, op, ops, result, loc,
          rpc, attempt, lastError, rurl, timerAt, rresult, tries, netCalls,
          waits, settled, waitReturns, fetchStarts, hist>>

envVars == <<cache, disk, files>>
retryVars == <<rpc, attempt, lastError, rurl, timerAt, rresult, tries>>
obsVars == <<netCalls, waits, settled, waitReturns, fetchStarts>>

\* maps (Map, directories) as functions
Put(map, key, value) ==
  [k \in (DOMAIN map) \cup {key} |-> IF k = key THEN value ELSE map[k]]
Has(map, key) == key \in DOMAIN map
NoOp == [name |-> "none", client |-> 1]
NoLoc == [f |-> "none"]
NoHist == [h |-> "none"]
NoCli == [pc |-> "off"]
NoUrl == [kind |-> "none"]
NoTimes == <<NoTimer, NoTimer>>
PushTime(pair, t) == <<pair[2], t>>

MkConfig(minIntervalMs, maxRetries, retryBaseDelayMs, cacheOn, cacheDir, cacheTtlMs, pageSize) ==
  [apiBaseUrl |-> "https://export.arxiv.org/api/query",
   pdfBaseUrl |-> "https://arxiv.org/pdf/",
   timeoutMs |-> 2,
   minIntervalMs |-> minIntervalMs,
   cache |-> cacheOn,
   cacheDir |-> cacheDir,
   cacheTtlMs |-> cacheTtlMs,
   pageSize |-> pageSize,
   maxRetries |-> maxRetries,
   retryBaseDelayMs |-> retryBaseDelayMs]

InitState ==
  /\ now = StartClock
  /\ lastRun = [c \in Clients |-> 0]
  /\ cache = [c \in Clients |-> << >>]
  /\ disk = << >>
  /\ pc = "idle"
  /\ op = NoOp
  /\ ops = 0
  /\ result = NoResult
  /\ loc = NoLoc
  /\ rpc = "off"
  /\ attempt = 0
  /\ lastError = NoError
  /\ rurl = NoUrl
  /\ timerAt = NoTimer
  /\ rresult = NoResult
  /\ tries = << >>
  /\ netCalls = 0
  /\ waits = 0
  /\ settled = 0
  /\ waitReturns = [c \in Clients |-> NoTimes]
  /\ fetchStarts = [c \in Clients |-> NoTimes]
  /\ cli = NoCli

InitCommon ==
  /\ InitState
  /\ hist = NoHist

(***************************************************************************)
(* RateLimiter.wait (rateLimiter.ts) as called by requestWithRetry         *)
(***************************************************************************)
Self == op.client

\* a wait one millisecond shorter than line 12 computes
waitMsShort(minIntervalMs, clock, last) == minIntervalMs - (clock - last) - 1
\* const waitMs = this.minIntervalMs - (Date.now() - this.lastRun)
waitMsOf(minIntervalMs, clock, last) == minIntervalMs - (clock - last)

\* lines 10-16 when no timer is needed: lastRun = Date.now(), same turn
RateLimiter_wait ==
  /\ rpc = "top"
  /\ LET waitMs == waitMsOf(cfg[Self].minIntervalMs, now, lastRun[Self])
     IN IF waitMs > 0
        THEN /\ timerAt' = now + waitMs
             /\ rpc' = "limiter"
             /\ UNCHANGED <<lastRun, waits, waitReturns>>
        ELSE /\ lastRun' = [lastRun EXCEPT ![Self] = now]
             /\ waitReturns' = [waitReturns EXCEPT ![Self] = PushTime(@, now)]
             /\ waits' = waits + 1
             /\ rpc' = "ready"
             /\ UNCHANGED timerAt
  /\ UNCHANGED <<now, env, cli, cfg, envVars, pc, op, ops, result, loc, attempt, lastError,
                 rurl, rresult, tries, netCalls, settled, fetchStarts, hist>>

\* the timer of line 14 fires, then line 16: lastRun = Date.now()
lastRunStale(clockAtEntry, clockAtWake) == clockAtEntry
lastRunAfterTimer(clockAtEntry, clockAtWake) == clockAtWake
RateLimiter_wake ==
  /\ rpc = "limiter"
  /\ \E late \in env.lateness :
       /\ Max(now, timerAt) + late <= MaxClock
       /\ now' = Max(now, timerAt) + late
       /\ lastRun' = [lastRun EXCEPT ![Self] = lastRunAfterTimer(now, now')]
       /\ waitReturns' = [waitReturns EXCEPT ![Self] = PushTime(@, now')]
  /\ waits' = waits + 1
  /\ timerAt' = NoTimer
  /\ rpc' = "ready"
  /\ UNCHANGED <<env, cli, cfg, envVars, pc, op, ops, result, loc, attempt, lastError,
                 rurl, rresult, tries, netCalls, settled, fetchStarts, hist>>

(***************************************************************************)
(* What the network can answer                                             *)
(***************************************************************************)
PdfBytes == [totalResults |-> 0, startIndex |-> 0, itemsPerPage |-> 0, entries |-> <<"%PDF">>]
\* the entries of a page are named by their position in the result list
EntryTag(start, i) == start + i
Feed(total, startIndex, itemsPerPage, count, start) ==
  [totalResults |-> total, startIndex |-> startIndex, itemsPerPage |-> itemsPerPage,
   entries |-> [i \in 1..count |-> EntryTag(start, i)]]
\* the provider is free in what it reports; the offsets and sizes it may
\* report here include ones that differ from what was asked
Feeds(url, totals, offsets, counts) ==
  {Feed(total, url.start + offset, count, count, url.start) :
     total \in totals, offset \in offsets, count \in counts}
Bodies(url, e) ==
  IF url.kind = "pdf" THEN {PdfBytes} ELSE Feeds(url, e.totals, e.offsets, e.counts)
HeaderKinds == {"absent", "seconds", "negative", "date", "past", "junk"}
RetryAfterHeader(kind, clock) ==
  CASE kind = "seconds" -> SecondsHeader(1)
    [] kind = "negative" -> SecondsHeader(-1)
    [] kind = "date" -> DateHeader(clock + 2)
    [] kind = "past" -> DateHeader(clock - 1)
    [] kind = "junk" -> JunkHeader
    [] OTHER -> NoHeader
RetryAfterHeaders(clock, kinds) == {RetryAfterHeader(kind, clock) : kind \in kinds}
\* What a run's environment may do: the timers and round trips, the
\* outcomes of a fetch, the feeds the provider reports, whether disk I/O
\* may fail, and how many public operations the caller issues.
LooseTimers == [latencies |-> {0, MaxLatency}, lateness |-> {0, MaxLate}, headers |-> HeaderKinds]
ExactTimers == [latencies |-> {0}, lateness |-> {0}, headers |-> {"absent"}]
ThrownNames == {"AbortError", "TypeError", "Error"}
AllOutcomes == [statuses |-> Statuses, errors |-> ThrownNames]
FewOutcomes == [statuses |-> {200, 400, 500}, errors |-> {"TypeError"}]
DownloadOutcomes == [statuses |-> {200, 500}, errors |-> {"TypeError"}]
AnyFeed == [totals |-> {1, MaxTotal}, offsets |-> {0, 1}, counts |-> 0..MaxEntries]
FullFeed == [totals |-> {MaxTotal}, offsets |-> {0}, counts |-> {1, MaxEntries}]
Env(timers, outcomes, feeds, diskFaults, maxOps) ==
  [latencies |-> timers.latencies, lateness |-> timers.lateness, headers |-> timers.headers,
   statuses |-> outcomes.statuses, errors |-> outcomes.errors,
   totals |-> feeds.totals, offsets |-> feeds.offsets, counts |-> feeds.counts,
   diskFaults |-> diskFaults, maxOps |-> maxOps]
Try(status, error) == [status |-> status, error |-> error]

(***************************************************************************)
(* ArxivClient.requestWithRetry (client.ts 879-940)                        *)
(***************************************************************************)
\* line 887 left out: a turn of the loop starts at the fetch
turnStartsAtFetch == "ready"
\* lines 886-887: a turn of the loop starts with await this.limiter.wait()
turnStart == "top"

\* let attempt = 0; let lastError = null; (lines 883-884)
EnterRetry(url) ==
  /\ rpc' = turnStart
  /\ attempt' = 0
  /\ lastError' = NoError
  /\ rurl' = url
  /\ rresult' = NoResult
  /\ tries' = << >>
  /\ UNCHANGED timerAt

\* lines 888-901: the attempt is issued in the turn in which wait() returned
requestWithRetry_fetch ==
  /\ rpc = "ready"
  /\ rpc' = "inflight"
  /\ netCalls' = netCalls + 1
  /\ fetchStarts' = [fetchStarts EXCEPT ![Self] = PushTime(@, now)]
  /\ UNCHANGED <<now, env, cli, cfg, lastRun, envVars, pc, op, ops, result, loc, attempt,
                 lastError, rurl, timerAt, rresult, tries, waits, settled,
                 waitReturns, hist>>

\* line 914
terminalWhenBudgetLeft(status, att, maxRetries) == ~shouldRetry(status) \/ att + 1 >= maxRetries
terminalResponse(status, att, maxRetries) == ~shouldRetry(status) \/ att >= maxRetries

\* the throw of line 939 in place of those of lines 926 and 929
rethrownPrevious(error, previous) == IF previous # NoError THEN previous ELSE error
\* lines 925-930: throw error, the error of this attempt
rethrown(error, previous) == error

\* line 919 with the header left out of account
retryDelayBackoffOnly(retryAfter, backoff) == backoff
\* line 919: retryAfter ?? computeBackoffDelay(...)
retryDelay(retryAfter, backoff) == IF retryAfter # NoTimer THEN retryAfter ELSE backoff

\* bookkeeping for the properties: the Retry-After header of a retryable
\* response, the delay slept after it, when and at which attempt
DelayHist == [h |-> "delays", delays |-> << >>]
Slept(header, delay, at, att) == [header |-> header, delay |-> delay, at |-> at, attempt |-> att]
noteDelay(h, header, delay, at, att) ==
  IF h.h = "delays" THEN [h EXCEPT !.delays = Append(@, Slept(header, delay, at, att))] ELSE h

\* lines 903-922: fetch resolved with a response
requestWithRetry_response ==
  /\ rpc = "inflight"
  /\ \E lat \in env.latencies, status \in env.statuses :
       /\ now + lat <= MaxClock
       /\ now' = now + lat
       /\ tries' = Append(tries, Try(status, "none"))
       /\ settled' = settled + 1
       /\ IF ResponseOk(status)
          THEN /\ \E body \in Bodies(rurl, env), readable \in BOOLEAN :
                    rresult' = Value([status |-> status, body |-> body, readable |-> readable])
               /\ rpc' = "returned"
               /\ UNCHANGED <<timerAt, hist>>
          ELSE IF terminalResponse(status, attempt, cfg[Self].maxRetries)
          THEN /\ rresult' = Thrown(rethrown(ResponseError(status, StatusText(status)), lastError))
               /\ rpc' = "threw"
               /\ UNCHANGED <<timerAt, hist>>
          ELSE /\ \E header \in RetryAfterHeaders(now', env.headers), jitter \in Jitters(cfg[Self].retryBaseDelayMs) :
                    LET retryAfter == parseRetryAfter(header, now')
                        delay == retryDelay(retryAfter,
                                   computeBackoffDelay(cfg[Self].retryBaseDelayMs, attempt, jitter))
                    IN /\ timerAt' = now' + delay
                       /\ hist' = noteDelay(hist, header, delay, now', attempt)
               /\ rpc' = "sleeping"
               /\ UNCHANGED rresult
  /\ UNCHANGED <<env, cli, cfg, lastRun, envVars, pc, op, ops, result, loc, attempt, lastError,
                 rurl, netCalls, waits, waitReturns, fetchStarts>>

\* line 928 without !isRetryableError(error)
terminalThrowWhenSpent(error, att, maxRetries) == att >= maxRetries
\* line 928
terminalThrow(error, att, maxRetries) == ~isRetryableError(error) \/ att >= maxRetries

\* lines 923-936: fetch rejected: the deadline timer aborted it (AbortError),
\* the transport failed (TypeError), or anything else was thrown
requestWithRetry_catch ==
  /\ rpc = "inflight"
  /\ \E name \in env.errors, lat \in env.latencies :
       LET elapsed == IF name = "AbortError" THEN cfg[Self].timeoutMs + lat ELSE lat
           error == MkError(name, "fetch failed")
       IN /\ now + elapsed <= MaxClock
          /\ now' = now + elapsed
          /\ tries' = Append(tries, Try(0, name))
          /\ settled' = settled + 1
          /\ IF terminalThrow(error, attempt, cfg[Self].maxRetries)
             THEN /\ rresult' = Thrown(rethrown(error, lastError))
                  /\ rpc' = "threw"
                  /\ UNCHANGED <<lastError, timerAt>>
             ELSE /\ lastError' = error
                  /\ \E jitter \in Jitters(cfg[Self].retryBaseDelayMs) :
                       timerAt' = now' + computeBackoffDelay(cfg[Self].retryBaseDelayMs, attempt, jitter)
                  /\ rpc' = "sleeping"
                  /\ UNCHANGED rresult
  /\ UNCHANGED <<env, cli, cfg, lastRun, envVars, pc, op, ops, result, loc, attempt,
                 rurl, netCalls, waits, waitReturns, fetchStarts, hist>>

\* line 886 with < in place of <=
loopContinuesBelow(att, maxRetries) == att < maxRetries
\* line 886: while (attempt <= this.config.maxRetries)
loopContinues(att, maxRetries) == att <= maxRetries

\* sleep(delay) is over: attempt += 1; continue (lines 920-922, 933-935),
\* then the loop test of line 886 and the throw of line 939
requestWithRetry_backoff ==
  /\ rpc = "sleeping"
  /\ \E late \in env.lateness :
       /\ Max(now, timerAt) + late <= MaxClock
       /\ now' = Max(now, timerAt) + late
  /\ timerAt' = NoTimer
  /\ attempt' = attempt + 1
  /\ IF loopContinues(attempt', cfg[Self].maxRetries)
     THEN /\ rpc' = turnStart
          /\ UNCHANGED rresult
     ELSE /\ rpc' = "threw"
          /\ rresult' = Thrown(IF lastError # NoError THEN lastError
                                ELSE MkError("Error", "Request failed"))
  /\ UNCHANGED <<env, cli, cfg, lastRun, envVars, pc, op, ops, result, loc, lastError,
                 rurl, tries, netCalls, waits, settled, waitReturns, fetchStarts, hist>>

\* the caller takes what requestWithRetry returned or threw
LeaveRetry ==
  /\ rpc' = "off"
  /\ UNCHANGED <<attempt, lastError, rurl, timerAt, rresult, tries>>

(***************************************************************************)
(* ArxivClient.downloadPdfBuffer (829-836) and requestBinary (868-877)     *)
(***************************************************************************)
\* a public operation starts some time after the previous one returned
BeginOp(o) ==
  /\ pc = "idle"
  /\ ops < env.maxOps
  /\ \E gap \in {0, MaxGap} : now + gap <= MaxClock /\ now' = now + gap
  /\ op' = o
  /\ ops' = ops + 1
  /\ netCalls' = 0
  /\ waits' = 0
  /\ settled' = 0

\* await response.arrayBuffer(): the bytes, or the rejection of the body read
requestBinary_result ==
  IF rresult.t = "error" THEN rresult
  ELSE IF rresult.v.readable THEN Value(rresult.v.body.entries)
  ELSE Thrown(MkError("TypeError", "terminated"))

\* the memory map if the bytes were kept the way request keeps a page (859-861)
cacheLikeRequest(map, config, url, response) ==
  IF config.cache /\ response.t = "value" THEN Put(map, url, response.v) ELSE map
\* requestBinary (868-877) hands the bytes over and keeps nothing
cacheAfterBinary(map, config, url, response) == map

downloadPdfBuffer_call(c, id) ==
  /\ BeginOp([name |-> "downloadPdfBuffer", client |-> c, id |-> id])
  /\ LET normalizedId == normalizeArxivId(id)
     IN IF normalizedId = << >>
        THEN /\ result' = Thrown(MkError("Error", "Invalid arXiv ID."))
             /\ pc' = "idle"
             /\ UNCHANGED retryVars
        ELSE /\ result' = NoResult
             /\ pc' = "pdfBuffer"
             /\ EnterRetry(buildPdfUrl(cfg[c].pdfBaseUrl, normalizedId))
  /\ UNCHANGED <<env, cli, cfg, lastRun, envVars, loc, waitReturns, fetchStarts, hist>>

downloadPdfBuffer_return ==
  /\ pc = "pdfBuffer"
  /\ rpc \in {"returned", "threw"}
  /\ result' = requestBinary_result
  /\ pc' = "idle"
  /\ LeaveRetry
  /\ cache' = [cache EXCEPT ![Self] = cacheAfterBinary(@, cfg[Self], rurl, requestBinary_result)]
  /\ UNCHANGED <<now, env, cli, cfg, lastRun, disk, files, op, ops, loc, obsVars, hist>>

(***************************************************************************)
(* ArxivClient.download (client.ts 760-811)                                *)
(***************************************************************************)
NoFile == [id |-> << >>, complete |-> FALSE, at |-> NoTimer]
FileOf(files0, path) == IF Has(files0, path) THEN files0[path] ELSE NoFile
\* fileExists (943-950) taking a file that was not written in full for absent
fileExistsComplete(files0, path) == Has(files0, path) /\ files0[path].complete
\* fileExists (943-950): access(path) succeeded
fileExists(files0, path) == Has(files0, path)

\* line 777 with the test dropped
isInvalidIdNever(normalizedId) == FALSE
\* line 777: if (!normalizedId)
isInvalidId(normalizedId) == normalizedId = << >>

\* line 789 with the overwrite flag read the other way round
skipsWhenOverwriting(exists, overwrite) == exists /\ overwrite
\* line 789: if (exists && !overwrite)
skips(exists, overwrite) == exists /\ ~overwrite

Outcome(id, path, status, error) == [id |-> id, path |-> path, status |-> status, error |-> error]
\* lines 778-783
invalidOutcome(normalizedId, outputPath) ==
  Outcome(normalizedId, outputPath, "failed", "Invalid arXiv ID")
\* lines 801-806 recording the item as skipped
caughtAsSkipped(normalizedId, outputPath, error) ==
  Outcome(normalizedId, outputPath, "skipped", error.message)
\* lines 801-806: the catch block of an item
caughtOutcome(normalizedId, outputPath, error) ==
  Outcome(normalizedId, outputPath, "failed", error.message)

\* what mkdir and writeFile (797-798) may do: succeed, or fail in mkdir, in
\* opening the file, or after the file was opened and truncated
DiskOutcomes(e) == {"ok"} \cup (IF e.diskFaults THEN {"mkdir", "open", "write"} ELSE {})
DiskError(outcome) ==
  CASE outcome = "mkdir" -> MkError("Error", "EACCES: permission denied, mkdir")
    [] outcome = "open" -> MkError("Error", "EACCES: permission denied, open")
    [] OTHER -> MkError("Error", "ENOSPC: no space left on device, write")
writeFile(files0, path, id, outcome, clock) ==
  CASE outcome = "ok" -> Put(files0, path, [id |-> id, complete |-> TRUE, at |-> clock])
    [] outcome = "write" -> Put(files0, path, [id |-> id, complete |-> FALSE, at |-> clock])
    [] OTHER -> files0

\* what happened to each item: the destination as it was found and as it
\* was left, the HTTP attempts made for it, the error raised while
\* processing it
DownloadHist == [h |-> "download", items |-> << >>]
Item(was, is, calls, raised) == [was |-> was, is |-> is, calls |-> calls, raised |-> raised]
DownloadLoc(i, results) ==
  [f |-> "download", i |-> i, results |-> results, normalizedId |-> << >>,
   outputPath |-> << >>, callsBefore |-> 0]

\* lines 766-771
download_call(c, ids, overwrite) ==
  /\ BeginOp([name |-> "download", client |-> c, ids |-> ids, overwrite |-> overwrite])
  /\ loc' = DownloadLoc(1, << >>)
  /\ hist' = DownloadHist
  /\ pc' = "item"
  /\ result' = NoResult
  /\ UNCHANGED <<env, cli, cfg, lastRun, envVars, retryVars, waitReturns, fetchStarts>>

\* a turn that would start while the request of the turn before is pending
loopTurnUnawaited(position) == position \in {"item", "fetching"}
\* for (const id of ids) with await this.requestBinary(url) (773, 796): a
\* turn of the loop starts when the one before has settled
loopTurnStarts(position) == position = "item"

\* lines 773-794: one turn of the loop up to the call of requestBinary
download_item ==
  /\ loopTurnStarts(pc)
  /\ loc.i <= Len(op.ids)
  /\ LET id == op.ids[loc.i]
         normalizedId == normalizeArxivId(id)
         filename == toSafeFileStem(id) \o PdfExt
         outputPath == resolve(OutputDir, filename)
         here == FileOf(files, outputPath)
     IN IF isInvalidId(normalizedId)
        THEN /\ loc' = DownloadLoc(loc.i + 1,
                         Append(loc.results, invalidOutcome(normalizedId, outputPath)))
             /\ hist' = [hist EXCEPT !.items = Append(@, Item(here, here, 0, NoError))]
             /\ UNCHANGED <<pc, retryVars>>
        ELSE IF skips(fileExists(files, outputPath), op.overwrite)
        THEN /\ loc' = DownloadLoc(loc.i + 1,
                         Append(loc.results, Outcome(normalizedId, outputPath, "skipped", "")))
             /\ hist' = [hist EXCEPT !.items = Append(@, Item(here, here, 0, NoError))]
             /\ UNCHANGED <<pc, retryVars>>
        ELSE /\ loc' = [loc EXCEPT !.normalizedId = normalizedId,
                                   !.outputPath = outputPath,
                                   !.callsBefore = netCalls]
             /\ pc' = "fetching"
             /\ EnterRetry(buildPdfUrl(cfg[Self].pdfBaseUrl, normalizedId))
             /\ UNCHANGED hist
  /\ UNCHANGED <<now, env, cli, cfg, lastRun, envVars, op, ops, result, obsVars>>

\* lines 796-807: requestBinary settled; mkdir, writeFile and the outcome
download_write ==
  /\ pc = "fetching"
  /\ rpc \in {"returned", "threw"}
  /\ LeaveRetry
  /\ pc' = "item"
  /\ LET response == requestBinary_result
         was == FileOf(files, loc.outputPath)
         calls == netCalls - loc.callsBefore
     IN IF response.t = "error"
        THEN /\ loc' = DownloadLoc(loc.i + 1,
                         Append(loc.results,
                                caughtOutcome(loc.normalizedId, loc.outputPath, response.e)))
             /\ hist' = [hist EXCEPT !.items = Append(@, Item(was, was, calls, response.e))]
             /\ UNCHANGED files
        ELSE \E outcome \in DiskOutcomes(env) :
               /\ files' = writeFile(files, loc.outputPath, loc.normalizedId, outcome, now)
               /\ loc' = DownloadLoc(loc.i + 1,
                           Append(loc.results,
                                  IF outcome = "ok"
                                  THEN Outcome(loc.normalizedId, loc.outputPath, "downloaded", "")
                                  ELSE caughtOutcome(loc.normalizedId, loc.outputPath,
                                                     DiskError(outcome))))
               /\ hist' = [hist EXCEPT !.items =
                             Append(@, Item(was, FileOf(files', loc.outputPath), calls,
                                            IF outcome = "ok" THEN NoError
                                            ELSE DiskError(outcome)))]
  /\ cache' = [cache EXCEPT ![Self] = cacheAfterBinary(@, cfg[Self], rurl, requestBinary_result)]
  /\ UNCHANGED <<now, env, cli, cfg, lastRun, disk, op, ops, result, obsVars>>

\* line 810
download_return ==
  /\ pc = "item"
  /\ loc.i > Len(op.ids)
  /\ result' = Value(loc.results)
  /\ pc' = "idle"
  /\ UNCHANGED <<now, env, cli, cfg, lastRun, envVars, op, ops, loc, retryVars, obsVars, hist>>

(***************************************************************************)
(* Query building (query.ts)                                               *)
(***************************************************************************)
NoStr == [t |-> "undefined", s |-> << >>]
Str(s) == [t |-> "string", s |-> s]
NoList == [t |-> "undefined", ids |-> << >>]
List(ids) == [t |-> "list", ids |-> ids]

\* item.split(/[\s,]+/) followed by trim and filter(Boolean)
IsSeparator(c) == IsSpace(c) \/ c = ","
RECURSIVE SplitTokens(_, _)
SplitTokens(s, cur) ==
  IF s = << >> THEN (IF cur = << >> THEN << >> ELSE <<cur>>)
  ELSE IF IsSeparator(s[1])
       THEN (IF cur = << >> THEN << >> ELSE <<cur>>) \o SplitTokens(Tail(s), << >>)
  ELSE SplitTokens(Tail(s), cur \o <<s[1]>>)
RECURSIVE FlatMapSplit(_)
FlatMapSplit(items) ==
  IF items = << >> THEN << >>
  ELSE SplitTokens(items[1], << >>) \o FlatMapSplit(Tail(items))
normalizeList(value) == IF value.t = "undefined" THEN << >> ELSE FlatMapSplit(value.ids)

\* buildQuery (56-117) for the options search passes: start and maxResults
\* are numbers search has validated; the URL is the base with the merged
\* parameters
buildQuery(baseUrl, options, start, maxResults) ==
  LET searchQuery == IF options.searchQuery.t = "undefined" THEN << >>
                     ELSE Trim(options.searchQuery.s)
      idList == normalizeList(options.idList)
  IN IF searchQuery = << >> /\ idList = << >>
     THEN Thrown(MkError("Error", "Provide a search query or at least one arXiv id."))
     ELSE Value([kind |-> "query", base |-> baseUrl, search_query |-> searchQuery,
                 id_list |-> idList, start |-> start, max_results |-> maxResults])

(***************************************************************************)
(* The cache layer (client.ts 838-866, 997-1031)                           *)
(***************************************************************************)
CachePath(cacheDir, url) == <<cacheDir, cacheFilenameForUrl(url)>>
NoBody == [totalResults |-> 0, startIndex |-> 0, itemsPerPage |-> 0, entries |-> << >>]
Miss == [hit |-> FALSE, text |-> NoBody]
Hit(text) == [hit |-> TRUE, text |-> text]

\* line 1012 left out: no entry is ever stale
isStaleNever(ageMs, ttlMs) == FALSE
\* line 1012 with the comparison made inclusive
isStaleInclusive(ageMs, ttlMs) == ageMs >= ttlMs
\* line 1012: the entry is stale when older than the TTL
isStale(ageMs, ttlMs) == ageMs > ttlMs

\* readDiskCache (1000-1020); readable is whether stat and readFile succeed
readDiskCache(url, cacheDir, ttlMs, files0, clock, readable) ==
  LET path == CachePath(cacheDir, url)
  IN IF ~Has(files0, path) \/ ~readable THEN Miss
     ELSE IF IsInt(ttlMs) /\ isStale(clock - files0[path].mtimeMs, ttlMs.v) THEN Miss
     ELSE Hit(files0[path].payload)

\* writeDiskCache (1022-1031)
writeDiskCache(url, cacheDir, payload, files0, clock) ==
  Put(files0, CachePath(cacheDir, url), [payload |-> payload, mtimeMs |-> clock])

\* lines 843 and 862 without this.config.cache &&
diskConfiguredByDir(config) == config.cacheDir # ""
\* lines 843 and 862: this.config.cache && this.config.cacheDir
diskConfigured(config) == config.cache /\ config.cacheDir # ""

(***************************************************************************)
(* ArxivClient.search (601-677) and ArxivClient.request (838-866)          *)
(***************************************************************************)
IsInteger(x) == IsInt(x)

\* the paging arguments of lines 602-624: the error thrown, or the resolved
\* pageSize, maxResults and start
resolvePaging(options, config) ==
  LET requestedPageSize == IF IsDef(options.pageSize) THEN options.pageSize
                           ELSE Num(config.pageSize)
  IN IF ~IsInteger(requestedPageSize) \/ requestedPageSize.v < 1
     THEN Thrown(MkError("Error", "pageSize must be a positive integer."))
     ELSE IF requestedPageSize.v > MAX_PAGE_SIZE
     THEN Thrown(MkError("Error", "pageSize cannot exceed MAX_PAGE_SIZE."))
     ELSE LET pageSize == requestedPageSize.v
              maxResults == IF IsDef(options.maxResults) THEN options.maxResults
                            ELSE Num(pageSize)
          IN IF ~IsInteger(maxResults) \/ maxResults.v < 1
             THEN Thrown(MkError("Error", "maxResults must be a positive integer."))
             ELSE IF maxResults.v > MAX_TOTAL_RESULTS
             THEN Thrown(MkError("Error", "maxResults cannot exceed MAX_TOTAL_RESULTS."))
             ELSE LET start == IF IsDef(options.start) THEN options.start ELSE Num(0)
                  IN IF ~IsInteger(start) \/ start.v < 0
                     THEN Thrown(MkError("Error", "start must be a non-negative integer."))
                     ELSE Value([pageSize |-> pageSize, maxResults |-> maxResults.v,
                                 start |-> start.v])

\* line 626
fetchAllFromEqual(options, maxResults, pageSize) == IsDef(options.maxResults) /\ maxResults >= pageSize
fetchAllOf(options, maxResults, pageSize) == IsDef(options.maxResults) /\ maxResults > pageSize

\* line 636 without the remaining count
batchSizeWholePage(pageSize, remaining) == pageSize
\* line 636
batchSizeOf(pageSize, remaining) == Min(pageSize, remaining)

\* line 662
exhaustedStrict(requestStartIndex, count, totalResults) == requestStartIndex + count > totalResults
exhausted(requestStartIndex, count, totalResults) == requestStartIndex + count >= totalResults

\* lines 658-660 left out: an empty page does not end the loop
emptyPageGoesOn(count) == FALSE
\* lines 658-660: if (parsed.entries.length === 0) break
emptyPageStops(count) == count = 0

\* line 646: the metadata of the result is taken while entries is still empty
takesMetadataAlways(entries) == TRUE
takesMetadata(entries) == Len(entries) = 0

SearchHist(previous) == [h |-> "search", prev |-> previous, requests |-> << >>, pages |-> << >>]
NoPrev ==
  [name |-> "none", client |-> 1, ok |-> FALSE, requests |-> << >>, calls |-> 0,
   disk |-> << >>]
\* what the properties remember of the search that ran before this
\* operation, and of the cache directory as this one starts
Previous ==
  IF op.name = "search"
  THEN [name |-> "search", client |-> op.client, options |-> op.options,
        ok |-> result.t = "value", requests |-> hist.requests, calls |-> netCalls,
        disk |-> disk]
  ELSE NoPrev

\* lines 602-633: validation and the initial values of the loop
search_enter(c, options) ==
  LET paging == resolvePaging(options, cfg[c])
  IN IF paging.t = "error"
     THEN /\ result' = paging
          /\ pc' = "idle"
          /\ loc' = NoLoc
     ELSE /\ result' = NoResult
          /\ pc' = "loop"
          /\ loc' = [f |-> "search",
                     pageSize |-> paging.v.pageSize,
                     maxResults |-> paging.v.maxResults,
                     fetchAll |-> fetchAllOf(options, paging.v.maxResults, paging.v.pageSize),
                     entries |-> << >>,
                     totalResults |-> 0,
                     resultStartIndex |-> paging.v.start,
                     requestStartIndex |-> paging.v.start,
                     itemsPerPage |-> paging.v.pageSize,
                     remaining |-> paging.v.maxResults,
                     url |-> NoUrl,
                     text |-> NoBody]

\* line 601: a call of search
search_call(c, options) ==
  /\ BeginOp([name |-> "search", client |-> c, options |-> options])
  /\ hist' = SearchHist(Previous)
  /\ search_enter(c, options)
  /\ UNCHANGED <<env, cli, cfg, lastRun, envVars, retryVars, waitReturns, fetchStarts>>

\* normalizeRequiredIds (501-507) letting empty identifiers through
normalizeRequiredIdsLax(ids) == Value([i \in 1..Len(ids) |-> normalizeArxivId(ids[i])])
\* normalizeRequiredIds (501-507)
normalizeRequiredIds(ids) ==
  LET normalized == [i \in 1..Len(ids) |-> normalizeArxivId(ids[i])]
  IN IF \E i \in 1..Len(ids) : normalized[i] = << >>
     THEN Thrown(MkError("Error", "Invalid arXiv ID in id list."))
     ELSE Value(normalized)

\* lines 719-725 alone: the empty result without the checks before it
emptyIdsResultUnchecked(options, config) ==
  Value([query |-> << >>, totalResults |-> 0, startIndex |-> 0,
         itemsPerPage |-> 0, entries |-> << >>])
\* fetchByIds with no identifiers (695-725): the paging arguments are
\* validated, then the empty result is returned
emptyIdsResult(options, config) ==
  LET requestedPageSize == IF IsDef(options.pageSize) THEN options.pageSize
                           ELSE Num(config.pageSize)
      start == IF IsDef(options.start) THEN options.start ELSE Num(0)
  IN IF ~IsInteger(requestedPageSize) \/ requestedPageSize.v < 1
     THEN Thrown(MkError("Error", "pageSize must be a positive integer."))
     ELSE IF requestedPageSize.v > MAX_PAGE_SIZE
     THEN Thrown(MkError("Error", "pageSize cannot exceed MAX_PAGE_SIZE."))
     ELSE IF IsDef(options.maxResults)
             /\ (~IsInteger(options.maxResults) \/ options.maxResults.v < 1)
     THEN Thrown(MkError("Error", "maxResults must be a positive integer."))
     ELSE IF IsDef(options.maxResults) /\ options.maxResults.v > MAX_TOTAL_RESULTS
     THEN Thrown(MkError("Error", "maxResults cannot exceed MAX_TOTAL_RESULTS."))
     ELSE IF ~IsInteger(start) \/ start.v < 0
     THEN Thrown(MkError("Error", "start must be a non-negative integer."))
     ELSE Value([query |-> << >>, totalResults |-> 0, startIndex |-> start.v,
                 itemsPerPage |-> 0, entries |-> << >>])

\* line 728 left out: maxResults is handed on as given
maxResultsAsGiven(given, normalizedIds) == given
\* line 728: options.maxResults ?? normalizedIds.length
maxResultsOrAllIds(given, normalizedIds) ==
  IF IsDef(given) THEN given ELSE Num(Len(normalizedIds))

\* fetchByIds (694-730): the search it delegates to runs on the normalized
\* identifiers, maxResults defaulting to their number
fetchByIds_call(c, ids, options) ==
  LET normalizedIds == normalizeRequiredIds(ids)
      delegated == IF ids = << >> \/ normalizedIds.t = "error" THEN options
                   ELSE [options EXCEPT
                           !.idList = List(normalizedIds.v),
                           !.maxResults = maxResultsOrAllIds(@, normalizedIds.v)]
  IN /\ BeginOp([name |-> "fetchByIds", client |-> c, ids |-> ids, given |-> options,
                 options |-> delegated])
     /\ hist' = SearchHist(NoPrev)
     /\ IF ids = << >>
        THEN /\ result' = emptyIdsResult(options, cfg[c])
             /\ pc' = "idle"
             /\ loc' = NoLoc
        ELSE IF normalizedIds.t = "error"
        THEN /\ result' = normalizedIds
             /\ pc' = "idle"
             /\ loc' = NoLoc
        ELSE search_enter(c, delegated)
     /\ UNCHANGED <<env, cli, cfg, lastRun, envVars, retryVars, waitReturns, fetchStarts>>

\* lines 635-643: the loop test, the URL of the page, the call of request
search_page ==
  /\ pc = "loop"
  /\ LET built == buildQuery(cfg[Self].apiBaseUrl, op.options, loc.requestStartIndex,
                             batchSizeOf(loc.pageSize, loc.remaining))
     IN IF built.t = "error"
        THEN /\ result' = built
             /\ pc' = "idle"
             /\ UNCHANGED <<loc, hist>>
        ELSE /\ loc' = [loc EXCEPT !.url = built.v]
             /\ hist' = [hist EXCEPT !.requests = Append(@, built.v)]
             /\ pc' = "request"
             /\ UNCHANGED result
  /\ UNCHANGED <<now, env, cli, cfg, lastRun, envVars, op, ops, retryVars, obsVars>>

\* line 847 left out: a disk hit is returned without entering the memory map
notPromoted(map, url, text) == map
\* line 847: this.cache.set(url, cached)
promoted(map, url, text) == Put(map, url, text)

\* lines 839-841 left out: the memory map is never consulted
memoryHitNever(config, map, url) == FALSE
\* line 839: this.config.cache && this.cache.has(url)
memoryHit(config, map, url) == config.cache /\ Has(map, url)

\* request, lines 839-856: memory map, then disk, then the network
request_lookup ==
  /\ pc = "request"
  /\ IF memoryHit(cfg[Self], cache[Self], loc.url)
     THEN /\ loc' = [loc EXCEPT !.text = cache[Self][loc.url]]
          /\ pc' = "parse"
          /\ UNCHANGED <<cache, retryVars>>
     ELSE \E readable \in {TRUE} \cup {~env.diskFaults} :
            LET cached == IF diskConfigured(cfg[Self])
                          THEN readDiskCache(loc.url, cfg[Self].cacheDir, cfg[Self].cacheTtlMs,
                                             disk, now, readable)
                          ELSE Miss
            IN IF cached.hit
               THEN /\ cache' = [cache EXCEPT ![Self] = promoted(@, loc.url, cached.text)]
                    /\ loc' = [loc EXCEPT !.text = cached.text]
                    /\ pc' = "parse"
                    /\ UNCHANGED retryVars
               ELSE /\ EnterRetry(loc.url)
                    /\ pc' = "network"
                    /\ UNCHANGED <<cache, loc>>
  /\ UNCHANGED <<now, env, cli, cfg, lastRun, disk, files, op, ops, result, obsVars, hist>>

\* lines 858-861 moved before the checks: whatever came back is kept
cacheAfterAnyRequest(map, config, url, response) ==
  IF ~config.cache THEN map
  ELSE IF response.t = "value" THEN Put(map, url, response.v.body)
  ELSE Put(map, url, NoBody)
\* lines 851-861: requestWithRetry and response.text() have not thrown, then
\* if (this.config.cache) this.cache.set(url, text)
cacheAfterRequest(map, config, url, response) ==
  IF config.cache /\ response.t = "value" /\ response.v.readable
  THEN Put(map, url, response.v.body)
  ELSE map

\* request, lines 851-865: requestWithRetry is over; response.text(), the
\* memory map, the disk file
request_store ==
  /\ pc = "network"
  /\ rpc \in {"returned", "threw"}
  /\ LeaveRetry
  /\ cache' = [cache EXCEPT ![Self] = cacheAfterRequest(@, cfg[Self], loc.url, rresult)]
  /\ IF rresult.t = "error"
     THEN /\ result' = rresult
          /\ pc' = "idle"
          /\ UNCHANGED <<disk, loc>>
     ELSE IF ~rresult.v.readable
     THEN /\ result' = Thrown(MkError("TypeError", "terminated"))
          /\ pc' = "idle"
          /\ UNCHANGED <<disk, loc>>
     ELSE LET text == rresult.v.body
          IN \E writable \in {TRUE} \cup {~env.diskFaults} :
               IF ~diskConfigured(cfg[Self])
               THEN /\ loc' = [loc EXCEPT !.text = text]
                    /\ pc' = "parse"
                    /\ UNCHANGED <<disk, result>>
               ELSE IF writable
               THEN /\ disk' = writeDiskCache(loc.url, cfg[Self].cacheDir, text, disk, now)
                    /\ loc' = [loc EXCEPT !.text = text]
                    /\ pc' = "parse"
                    /\ UNCHANGED result
               ELSE /\ result' = Thrown(MkError("Error", "EACCES"))
                    /\ pc' = "idle"
                    /\ UNCHANGED <<disk, loc>>
  /\ UNCHANGED <<now, env, cli, cfg, lastRun, files, op, ops, obsVars, hist>>

\* the SearchResult of lines 670-676
searchResult(options, l) ==
  [query |-> options.searchQuery.s,
   totalResults |-> l.totalResults,
   startIndex |-> l.resultStartIndex,
   itemsPerPage |-> l.itemsPerPage,
   entries |-> l.entries]

\* line 667 replaced: the next request starts after the offset the page reported
nextStartFromResponse(requestStartIndex, count, parsed) == parsed.startIndex + count
\* line 667: requestStartIndex += parsed.entries.length
nextRequestStart(requestStartIndex, count, parsed) == requestStartIndex + count

\* line 652 replaced: only the entries of the latest page are kept
keepLatestPage(entries, page) == page
\* line 652: entries.push(...parsed.entries)
pushEntries(entries, page) == entries \o page

\* lines 644-668: decode the page, accumulate, leave the loop or go on
search_parse ==
  /\ pc = "parse"
  /\ LET parsed == loc.text
         count == Len(parsed.entries)
         first == takesMetadata(loc.entries)
         merged == [loc EXCEPT
                      !.totalResults = IF first THEN parsed.totalResults ELSE @,
                      !.resultStartIndex = IF first THEN parsed.startIndex ELSE @,
                      !.itemsPerPage = IF first THEN parsed.itemsPerPage ELSE @,
                      !.entries = pushEntries(@, parsed.entries)]
         stop == \/ ~loc.fetchAll
                 \/ emptyPageStops(count)
                 \/ exhausted(loc.requestStartIndex, count, parsed.totalResults)
         advanced == [merged EXCEPT !.remaining = @ - count,
                                    !.requestStartIndex = nextRequestStart(@, count, parsed)]
     IN /\ hist' = [hist EXCEPT !.pages = Append(@,
                       [requestStartIndex |-> loc.requestStartIndex,
                        batchSize |-> loc.url.max_results,
                        parsed |-> parsed])]
        /\ IF stop \/ ~(advanced.remaining > 0)
           THEN /\ loc' = IF stop THEN merged ELSE advanced
                /\ result' = Value(searchResult(op.options, loc'))
                /\ pc' = "idle"
           ELSE /\ loc' = advanced
                /\ pc' = "loop"
                /\ UNCHANGED result
  /\ UNCHANGED <<now, env, cli, cfg, lastRun, envVars, op, ops, retryVars, obsVars>>

(***************************************************************************)
(* Specification of one logical request at a time: a call stream of       *)
(* downloadPdfBuffer calls on one client, each a requestWithRetry          *)
(***************************************************************************)
RetryIds == {<<"1">>, <<" ">>}
RetryConfig(minIntervalMs, maxRetries, retryBaseDelayMs) ==
  MkConfig(minIntervalMs, maxRetries, retryBaseDelayMs, FALSE, "", Undef, DEFAULT_PAGE_SIZE)
RetryRuns ==
  {<<RetryConfig(0, 0, 0), LooseTimers>>, <<RetryConfig(2, 0, 0), LooseTimers>>,
   <<RetryConfig(0, 1, 1), LooseTimers>>, <<RetryConfig(2, 1, 1), LooseTimers>>,
   <<RetryConfig(2, 1, 0), LooseTimers>>, <<RetryConfig(0, 2, 0), ExactTimers>>,
   <<RetryConfig(2, 2, 1), ExactTimers>>}

InitRetry ==
  /\ InitCommon
  /\ \E run \in RetryRuns :
       /\ cfg = [c \in Clients |-> run[1]]
       /\ env = Env(run[2], AllOutcomes, FullFeed, FALSE, MaxOps)
  /\ files = << >>

NextRetry ==
  \/ \E id \in RetryIds : downloadPdfBuffer_call(1, id)
  \/ downloadPdfBuffer_return
  \/ RateLimiter_wait
  \/ RateLimiter_wake
  \/ requestWithRetry_fetch
  \/ requestWithRetry_response
  \/ requestWithRetry_catch
  \/ requestWithRetry_backoff

SpecRetry == InitRetry /\ [][NextRetry]_vars

(***************************************************************************)
(* Properties of the rate limiter and of requestWithRetry (SpecRetry)      *)
(***************************************************************************)
InRetry == rpc # "off"
RetryEnded == rpc \in {"returned", "threw"}
RetryPending == rpc \in {"top", "limiter", "ready", "inflight", "sleeping"}
IsResponse(try) == try.error = "none"
SpacedBy(pair, interval) == pair[1] # NoTimer => pair[2] - pair[1] >= interval

\* C1: with one call stream per client, two consecutive returns of
\* RateLimiter.wait(), and two consecutive fetch calls, of a client are at
\* least minIntervalMs apart.
C1_MinInterval ==
  \A c \in Clients :
    /\ SpacedBy(waitReturns[c], cfg[c].minIntervalMs)
    /\ SpacedBy(fetchStarts[c], cfg[c].minIntervalMs)

\* a second operation whose first attempt had to sit out the whole interval
C1_Witness ==
  /\ ops = 2
  /\ cfg[1].minIntervalMs > 0
  /\ rpc = "inflight"
  /\ netCalls = 1
  /\ fetchStarts[1][1] # NoTimer
  /\ fetchStarts[1][2] - fetchStarts[1][1] = cfg[1].minIntervalMs
  /\ waitReturns[1][2] = now

\* C2: one requestWithRetry makes at most maxRetries+1 fetch calls; when
\* every attempt got a retryable status it ends with an error after exactly
\* maxRetries+1 calls; with maxRetries = 0 it ends after exactly one call.
C2_AttemptBudget ==
  /\ InRetry => (netCalls <= cfg[Self].maxRetries + 1 /\ Len(tries) <= netCalls)
  /\ RetryEnded =>
       /\ Len(tries) = netCalls
       /\ (\A i \in 1..Len(tries) : IsResponse(tries[i]) /\ shouldRetry(tries[i].status)) =>
            /\ rpc = "threw"
            /\ netCalls = cfg[Self].maxRetries + 1
       /\ cfg[Self].maxRetries = 0 => netCalls = 1

\* every attempt of a request with retries answered 429
C2_Witness ==
  /\ rpc = "threw"
  /\ cfg[Self].maxRetries = 2
  /\ netCalls = 3
  /\ \A i \in 1..Len(tries) : tries[i].status = 429

\* C3: a response with status 408, 429 or 500..598 received while attempts
\* remain does not end the request: another attempt follows; and when a
\* later attempt gets a 2xx the request returns that response.
RetryableByClaim(status) == status \in {408, 429} \/ (status >= 500 /\ status < 599)
C3_RetryableRetried ==
  /\ \A i \in 1..Len(tries) :
       (InRetry /\ IsResponse(tries[i]) /\ RetryableByClaim(tries[i].status) /\ i <= cfg[Self].maxRetries)
         => (Len(tries) > i \/ RetryPending)
  /\ (RetryEnded /\ IsResponse(tries[Len(tries)]) /\ ResponseOk(tries[Len(tries)].status))
       => /\ rpc = "returned"
          /\ rresult.t = "value"
          /\ rresult.v.status = tries[Len(tries)].status
          /\ netCalls = Len(tries)

\* a 408 or a 500 followed by a 200: two attempts, success
C3_Witness ==
  /\ rpc = "returned"
  /\ Len(tries) = 2
  /\ tries[1].status \in {408, 500}
  /\ tries[2].status = 200
  /\ netCalls = 2
  /\ rresult.t = "value"

\* C4 as stated: every non-2xx status outside {408, 429} and 500..598 ends
\* the request at once with the error "<status> <statusText>".
EndsWith(i, status) ==
  /\ Len(tries) = i
  /\ rpc = "threw"
  /\ rresult = Thrown(ResponseError(status, StatusText(status)))
C4_OriginalHalfOpen ==
  \A i \in 1..Len(tries) :
    (InRetry /\ IsResponse(tries[i]) /\ ~ResponseOk(tries[i].status)
       /\ ~RetryableByClaim(tries[i].status))
      => EndsWith(i, tries[i].status)

\* C4 as amended: every non-2xx status below 500 other than 408 and 429 ends
\* the request at its first occurrence, whatever retry budget remains, with
\* the error "<status> <statusText>"; statuses from 500 on, 599 included,
\* are retried.
C4_TerminalStatus ==
  \A i \in 1..Len(tries) :
    (InRetry /\ IsResponse(tries[i]) /\ ~ResponseOk(tries[i].status)
       /\ tries[i].status \notin {408, 429} /\ tries[i].status < 500)
      => /\ EndsWith(i, tries[i].status)
         /\ (i = 1 => netCalls = 1)

\* a 400 on the first attempt of a request that had two retries left
C4_Witness ==
  /\ rpc = "threw"
  /\ cfg[Self].maxRetries = 2
  /\ tries = <<Try(400, "none")>>
  /\ netCalls = 1
  /\ rresult.e.message = "Bad Request"

(***************************************************************************)
(* Specification of the pagination controller: a call stream of searches  *)
(* on one client without cache, the provider free in what it reports       *)
(***************************************************************************)
Query == Str(<<"q">>)
Options(searchQuery, idList, start, maxResults, pageSize) ==
  [searchQuery |-> searchQuery, idList |-> idList, start |-> start,
   maxResults |-> maxResults, pageSize |-> pageSize]
ValidOptions ==
  {Options(Query, NoList, Undef, Num(10), Num(2)),
   Options(Query, NoList, Undef, Undef, Undef),
   Options(Query, NoList, Num(1), Num(3), Num(2)),
   Options(Query, NoList, Undef, Num(2), Num(2)),
   Options(Query, NoList, Undef, Undef, Num(1)),
   Options(Query, NoList, Undef, Num(1), Undef),
   Options(NoStr, List(<<<<"1">>, <<"2", ",", "0">>>>), Undef, Num(3), Num(1))}
InvalidOptions ==
  {Options(Query, NoList, Undef, Undef, Num(0)),
   Options(Query, NoList, Undef, Undef, Frac),
   Options(Query, NoList, Undef, Undef, Num(MAX_PAGE_SIZE + 1)),
   Options(Query, NoList, Undef, Num(0), Undef),
   Options(Query, NoList, Undef, Frac, Undef),
   Options(Query, NoList, Undef, Num(MAX_TOTAL_RESULTS + 1), Undef),
   Options(Query, NoList, Num(-1), Undef, Undef),
   Options(Query, NoList, Frac, Undef, Undef),
   Options(Str(<<" ">>), NoList, Undef, Undef, Undef),
   Options(NoStr, List(<< >>), Undef, Undef, Undef)}
SearchOptions == ValidOptions \cup InvalidOptions

InitSearch ==
  /\ InitCommon
  /\ cfg = [c \in Clients |-> MkConfig(1, 1, 0, FALSE, "", Undef, 2)]
  /\ env = Env(ExactTimers, FewOutcomes, AnyFeed, FALSE, 1)
  /\ files = << >>

NextSearch ==
  \/ \E options \in SearchOptions : search_call(1, options)
  \/ search_page
  \/ request_lookup
  \/ request_store
  \/ search_parse
  \/ RateLimiter_wait
  \/ RateLimiter_wake
  \/ requestWithRetry_fetch
  \/ requestWithRetry_response
  \/ requestWithRetry_catch
  \/ requestWithRetry_backoff

SpecSearch == InitSearch /\ [][NextSearch]_vars

(***************************************************************************)
(* Properties of the pagination controller (SpecSearch)                    *)
(***************************************************************************)
InSearch == op.name = "search" /\ loc.f = "search"
SearchReturned == InSearch /\ pc = "idle" /\ result.t = "value"
PageCount(i) == Len(hist.pages[i].parsed.entries)

\* C5: the startIndex search returns is the offset decoded from the first
\* page; it is set by the first page and not modified by a later one.
C5_FirstPageOffset ==
  /\ (InSearch /\ Len(hist.pages) >= 1) =>
       loc.resultStartIndex = hist.pages[1].parsed.startIndex
  /\ SearchReturned => result.v.startIndex = hist.pages[1].parsed.startIndex

\* three pages were fetched, each reporting another offset, none of them
\* the offset the caller asked for
C5_Witness ==
  /\ SearchReturned
  /\ Len(hist.pages) = 3
  /\ hist.pages[2].parsed.startIndex # hist.pages[1].parsed.startIndex
  /\ hist.pages[3].parsed.startIndex # hist.pages[1].parsed.startIndex
  /\ result.v.startIndex # hist.requests[1].start

\* C6: with pagination enabled, a page with requestStartIndex + entries >=
\* totalResults is the last page search requests.
C6_StopsWhenExhausted ==
  InSearch =>
    \A i \in 1..Len(hist.pages) :
      (loc.fetchAll /\ hist.pages[i].requestStartIndex + PageCount(i)
                         >= hist.pages[i].parsed.totalResults)
        => /\ Len(hist.requests) = i
           /\ pc = "idle"

\* totalResults = 3, pageSize = 2, maxResults = 10: two requests, three entries
C6_Witness ==
  /\ SearchReturned
  /\ op.options.maxResults = Num(10)
  /\ loc.pageSize = 2
  /\ Len(hist.requests) = 2
  /\ netCalls = 2
  /\ PageCount(1) = 2
  /\ PageCount(2) = 1
  /\ hist.pages[1].parsed.totalResults = 3
  /\ hist.pages[2].parsed.totalResults = 3
  /\ Len(result.v.entries) = 3

\* C7: search requests a second page only when the caller passed an
\* explicit maxResults greater than the resolved pageSize; in every other
\* case it requests exactly one page, whatever that page reports.
ResolvedPageSize == IF IsDef(op.options.pageSize) THEN op.options.pageSize.v ELSE cfg[Self].pageSize
PaginationAsked == IsDef(op.options.maxResults) /\ op.options.maxResults.v > ResolvedPageSize
C7_SinglePageUnlessAsked ==
  (InSearch /\ ~PaginationAsked) =>
    /\ Len(hist.requests) <= 1
    /\ SearchReturned => (Len(hist.requests) = 1 /\ Len(hist.pages) = 1)

\* no maxResults given: one request although the page is full and the
\* provider reports more results than the page holds
C7_Witness ==
  /\ SearchReturned
  /\ ~IsDef(op.options.maxResults)
  /\ Len(hist.requests) = 1
  /\ PageCount(1) = loc.pageSize
  /\ hist.pages[1].parsed.totalResults > PageCount(1)

(***************************************************************************)
(* Specification of the cache layer: a call stream of searches on two     *)
(* clients that may share a cache directory                                *)
(***************************************************************************)
CacheConfig(minIntervalMs, cacheOn, cacheDir, cacheTtlMs) ==
  MkConfig(minIntervalMs, 1, 0, cacheOn, cacheDir, cacheTtlMs, 2)
CacheRuns ==
  {<<CacheConfig(0, TRUE, "D", Undef), CacheConfig(0, TRUE, "D", Undef)>>,
   <<CacheConfig(0, TRUE, "D", Num(MaxGap)), CacheConfig(0, TRUE, "D", Num(MaxGap))>>,
   <<CacheConfig(0, TRUE, "D", Undef), CacheConfig(0, TRUE, "E", Undef)>>,
   <<CacheConfig(1, TRUE, "", Undef), CacheConfig(1, FALSE, "D", Undef)>>}
CacheOptions ==
  {Options(Query, NoList, Undef, Num(10), Num(2)),
   Options(Query, NoList, Undef, Undef, Undef),
   Options(Query, NoList, Num(1), Undef, Undef)}

InitCache ==
  /\ InitCommon
  /\ \E run \in CacheRuns : cfg = [c \in Clients |-> run[c]]
  /\ env = Env(ExactTimers, FewOutcomes, FullFeed, FALSE, MaxOps)
  /\ files = << >>

NextCache ==
  \/ \E c \in Clients, options \in CacheOptions : search_call(c, options)
  \/ search_page
  \/ request_lookup
  \/ request_store
  \/ search_parse
  \/ RateLimiter_wait
  \/ RateLimiter_wake
  \/ requestWithRetry_fetch
  \/ requestWithRetry_response
  \/ requestWithRetry_catch
  \/ requestWithRetry_backoff

SpecCache == InitCache /\ [][NextCache]_vars

(***************************************************************************)
(* Properties of the cache layer (SpecCache)                               *)
(***************************************************************************)
\* the search before this one was the same search, by another client with
\* cache enabled and the same cache directory, and it returned
RepeatsSearchOfOtherClient ==
  /\ op.name = "search"
  /\ hist.prev.name = "search"
  /\ hist.prev.ok
  /\ hist.prev.client # op.client
  /\ hist.prev.options = op.options
  /\ diskConfigured(cfg[op.client])
  /\ cfg[hist.prev.client].cacheDir = cfg[op.client].cacheDir
\* the entries the cache directory held for that search when this one
\* started are within this client's TTL now
WithinTtl ==
  \A i \in 1..Len(hist.prev.requests) :
    LET path == CachePath(cfg[op.client].cacheDir, hist.prev.requests[i])
    IN /\ Has(hist.prev.disk, path)
       /\ IsInt(cfg[op.client].cacheTtlMs) =>
            now - hist.prev.disk[path].mtimeMs <= cfg[op.client].cacheTtlMs.v

\* C8 as stated: after a client with cache enabled and cacheDir D completed
\* a search, the same search by another client with the same cacheDir,
\* within the TTL, issues no network call, and the two searches together
\* issue exactly one network call.
C8_OriginalOneCall ==
  (RepeatsSearchOfOtherClient /\ WithinTtl) =>
    /\ netCalls = 0
    /\ hist.prev.calls + netCalls = 1

\* C8 as amended: after a client with cache enabled and cacheDir D completed
\* a search, the same search by another client with the same cacheDir,
\* within the TTL, issues no network call: every page is served from the
\* directory. The network calls of the two together are those of the first
\* search, one for each attempt of each page it requested.
C8_DiskCacheRoundTrip ==
  (RepeatsSearchOfOtherClient /\ WithinTtl) =>
    /\ netCalls = 0
    /\ pc = "idle" => (result.t = "value" /\ hist.requests = hist.prev.requests)

\* the second client returned a two-page result without a network call,
\* the first one having fetched both pages; a TTL is configured
C8_Witness ==
  /\ RepeatsSearchOfOtherClient
  /\ WithinTtl
  /\ pc = "idle"
  /\ result.t = "value"
  /\ Len(hist.requests) = 2
  /\ Len(result.v.entries) = 3
  /\ IsInt(cfg[op.client].cacheTtlMs)
  /\ netCalls = 0

(***************************************************************************)
(* Batch downloads: one client, one download of up to MaxIds identifiers   *)
(* into a directory that may already hold files; the disk may fail         *)
(***************************************************************************)
DownloadIds == {<<"1">>, <<" ">>, <<"a", "/", "b">>}
IdLists == UNION {[1..n -> DownloadIds] : n \in 0..MaxIds}
DestinationOf(id) == resolve(OutputDir, toSafeFileStem(id) \o PdfExt)
OldFile == [id |-> <<"o", "l", "d">>, complete |-> TRUE, at |-> 0]
ExistingFiles ==
  {[path \in paths |-> OldFile] : paths \in {{}, {DestinationOf(<<"1">>), DestinationOf(<<" ">>)}}}

InitDownload ==
  /\ InitCommon
  /\ cfg = [c \in Clients |-> MkConfig(1, 1, 0, FALSE, "", Undef, 2)]
  /\ env = Env(ExactTimers, DownloadOutcomes, FullFeed, TRUE, 1)
  /\ files \in ExistingFiles

NextDownload ==
  \/ \E ids \in IdLists, overwrite \in BOOLEAN : download_call(1, ids, overwrite)
  \/ download_item
  \/ download_write
  \/ download_return
  \/ RateLimiter_wait
  \/ RateLimiter_wake
  \/ requestWithRetry_fetch
  \/ requestWithRetry_response
  \/ requestWithRetry_catch
  \/ requestWithRetry_backoff

SpecDownload == InitDownload /\ [][NextDownload]_vars

(***************************************************************************)
(* Properties of download (SpecDownload)                                   *)
(***************************************************************************)
InDownload == op.name = "download" /\ loc.f = "download"
Processed == 1..Len(hist.items)
ValidId(k) == normalizeArxivId(op.ids[k]) # << >>
Existed(k) == hist.items[k].was # NoFile

\* C9: download yields one outcome per input identifier, in input order,
\* and never throws because of an item: an error raised while checking,
\* fetching or writing an item makes that item's outcome "failed" with the
\* error's message, and the items after it are processed all the same.
C9_OneOutcomePerItem ==
  InDownload =>
    /\ result.t # "error"
    /\ Len(loc.results) = loc.i - 1
    /\ Len(hist.items) = Len(loc.results)
    /\ Len(loc.results) <= Len(op.ids)
    /\ \A k \in 1..Len(loc.results) :
         /\ loc.results[k].id = normalizeArxivId(op.ids[k])
         /\ loc.results[k].path = DestinationOf(op.ids[k])
         /\ loc.results[k].status \in {"downloaded", "skipped", "failed"}
         /\ hist.items[k].raised # NoError =>
              /\ loc.results[k].status = "failed"
              /\ loc.results[k].error = hist.items[k].raised.message
    /\ pc = "idle" => /\ result = Value(loc.results)
                      /\ Len(result.v) = Len(op.ids)

\* a batch of two returned: the first item failed on an error of the fetch,
\* the second was downloaded
C9_Witness ==
  /\ InDownload
  /\ pc = "idle"
  /\ Len(op.ids) = 2
  /\ result.t = "value"
  /\ hist.items[1].raised # NoError
  /\ hist.items[1].calls > 0
  /\ result.v[1].status = "failed"
  /\ result.v[2].status = "downloaded"

\* the destination of item k was left as it was found and no HTTP attempt
\* was made for it
LeftAlone(k) == hist.items[k].calls = 0 /\ hist.items[k].is = hist.items[k].was
\* no file that existed is written unless overwrite is true
WritesOnlyOnOverwrite ==
  /\ \A k \in Processed : (Existed(k) /\ hist.items[k].is # hist.items[k].was) => op.overwrite
  /\ (pc = "fetching" /\ fileExists(files, loc.outputPath)) => op.overwrite

\* C10 as stated: every item whose destination file exists while overwrite
\* is false ends "skipped", without an HTTP attempt and with the file
\* unmodified; existing files are written only when overwrite is true.
C10_Original ==
  InDownload =>
    /\ \A k \in Processed :
         (Existed(k) /\ ~op.overwrite) => (loc.results[k].status = "skipped" /\ LeftAlone(k))
    /\ WritesOnlyOnOverwrite

\* C10: every item with a valid identifier whose destination file exists
\* while overwrite is false ends "skipped"; an item whose identifier is
\* invalid ends "failed" whether or not its placeholder destination exists;
\* in both cases no HTTP attempt is made for the item and the file is left
\* unmodified; existing files are written only when overwrite is true.
C10_SkipsExisting ==
  InDownload =>
    /\ \A k \in Processed :
         (Existed(k) /\ ~op.overwrite) =>
           /\ loc.results[k].status = (IF ValidId(k) THEN "skipped" ELSE "failed")
           /\ LeftAlone(k)
    /\ WritesOnlyOnOverwrite

\* a batch of two returned with overwrite false: the first destination
\* held an older file and the item was skipped, the second was downloaded
C10_Witness ==
  /\ InDownload
  /\ pc = "idle"
  /\ ~op.overwrite
  /\ Len(op.ids) = 2
  /\ hist.items[1].was = OldFile
  /\ result.v[1].status = "skipped"
  /\ files[result.v[1].path] = OldFile
  /\ result.v[2].status = "downloaded"
  /\ hist.items[2].calls > 0

\* C11: an identifier that normalizes to the empty string is recorded
\* "failed" with the error "Invalid arXiv ID", with no network call and no
\* file write for the item; a download of no identifiers returns no
\* outcomes and makes no network call.
C11_InvalidIdNoNetwork ==
  InDownload =>
    /\ \A k \in Processed :
         ~ValidId(k) =>
           /\ loc.results[k].status = "failed"
           /\ loc.results[k].error = "Invalid arXiv ID"
           /\ LeftAlone(k)
    /\ (pc = "fetching" \/ rpc # "off") => ValidId(loc.i)
    /\ (pc = "idle" /\ op.ids = << >>) => (result = Value(<< >>) /\ netCalls = 0)

\* a batch of two returned: the invalid first identifier failed without a
\* network call, the second was fetched and downloaded
C11_Witness ==
  /\ InDownload
  /\ pc = "idle"
  /\ Len(op.ids) = 2
  /\ ~ValidId(1)
  /\ result.v[1].status = "failed"
  /\ result.v[1].error = "Invalid arXiv ID"
  /\ hist.items[1].calls = 0
  /\ result.v[2].status = "downloaded"
  /\ netCalls > 0

(***************************************************************************)
(* Destination paths: downloads of one identifier built from path          *)
(* characters into an empty directory                                      *)
(***************************************************************************)
PathChars == {".", "/", "\\", "e"}
Strings(chars, n) == UNION {[1..k -> chars] : k \in 0..n}
Escape == <<".", ".", "/", ".", ".", "/", "e", "s", "c", "a", "p", "e">>
PathIds == Strings(PathChars, MaxPathLen) \cup {Escape}

InitPaths ==
  /\ InitCommon
  /\ cfg = [c \in Clients |-> MkConfig(1, 1, 0, FALSE, "", Undef, 2)]
  /\ env = Env(ExactTimers, DownloadOutcomes, FullFeed, TRUE, 1)
  /\ files = << >>

NextPaths ==
  \/ \E id \in PathIds : download_call(1, <<id>>, FALSE)
  \/ download_item
  \/ download_write
  \/ download_return
  \/ RateLimiter_wait
  \/ RateLimiter_wake
  \/ requestWithRetry_fetch
  \/ requestWithRetry_response
  \/ requestWithRetry_catch
  \/ requestWithRetry_backoff

SpecPaths == InitPaths /\ [][NextPaths]_vars

\* path is the file "<stem>.pdf" directly in the output directory, the stem
\* being made of the characters [A-Za-z0-9._-] only
IsStem(stem) == stem # << >> /\ \A i \in 1..Len(stem) : stem[i] \in SafeChars
DirectChild(path) ==
  /\ Len(path) = Len(OutputDir) + 1
  /\ Take(path, Len(OutputDir)) = OutputDir
  /\ LET name == path[Len(path)]
     IN /\ Len(name) > Len(PdfExt)
        /\ Drop(name, Len(name) - Len(PdfExt)) = PdfExt
        /\ IsStem(Take(name, Len(name) - Len(PdfExt)))

\* C12: whatever the identifier, '..', '/' and '\' segments included, the
\* destination download computes, reports and writes to is a direct child
\* "<stem>.pdf" of the output directory whose stem has only [A-Za-z0-9._-].
C12_PathContained ==
  InDownload =>
    /\ \A k \in 1..Len(loc.results) : DirectChild(loc.results[k].path)
    /\ pc = "fetching" => DirectChild(loc.outputPath)
    /\ \A path \in DOMAIN files : DirectChild(path)

\* the download of "../../escape" wrote its file into the output directory
C12_Witness ==
  /\ InDownload
  /\ pc = "idle"
  /\ op.ids = <<Escape>>
  /\ result.v[1].status = "downloaded"
  /\ DOMAIN files = {result.v[1].path}
  /\ DirectChild(result.v[1].path)

(***************************************************************************)
(* Argument validation: one call of search, fetchByIds or                  *)
(* downloadPdfBuffer with valid or invalid arguments                       *)
(***************************************************************************)
FetchIds == {<< >>, <<<<"1">>>>, <<<<" ">>>>, <<<<"1">>, <<" ">>>>, <<<<"1">>, <<"2">>>>}
FetchOptions ==
  {Options(NoStr, NoList, Undef, Undef, Undef),
   Options(NoStr, NoList, Num(1), Num(1), Num(1)),
   Options(NoStr, NoList, Undef, Undef, Num(0)),
   Options(NoStr, NoList, Undef, Undef, Num(MAX_PAGE_SIZE + 1)),
   Options(NoStr, NoList, Undef, Frac, Undef),
   Options(NoStr, NoList, Undef, Num(MAX_TOTAL_RESULTS + 1), Undef),
   Options(NoStr, NoList, Num(-1), Undef, Undef)}

InitValidate ==
  /\ InitCommon
  /\ cfg = [c \in Clients |-> MkConfig(1, 1, 0, FALSE, "", Undef, 2)]
  /\ env = Env(ExactTimers, FewOutcomes, FullFeed, FALSE, 1)
  /\ files = << >>

NextValidate ==
  \/ \E options \in SearchOptions : search_call(1, options)
  \/ \E ids \in FetchIds, options \in FetchOptions : fetchByIds_call(1, ids, options)
  \/ \E id \in RetryIds : downloadPdfBuffer_call(1, id)
  \/ downloadPdfBuffer_return
  \/ search_page
  \/ request_lookup
  \/ request_store
  \/ search_parse
  \/ RateLimiter_wait
  \/ RateLimiter_wake
  \/ requestWithRetry_fetch
  \/ requestWithRetry_response
  \/ requestWithRetry_catch
  \/ requestWithRetry_backoff

SpecValidate == InitValidate /\ [][NextValidate]_vars

\* the invalid arguments the claim lists
IntegerWithin(x, low, high) == IsInt(x) /\ x.v >= low /\ x.v <= high
BadPaging(options, config) ==
  \/ ~IntegerWithin(IF IsDef(options.pageSize) THEN options.pageSize ELSE Num(config.pageSize),
                    1, MAX_PAGE_SIZE)
  \/ IsDef(options.maxResults) /\ ~IntegerWithin(options.maxResults, 1, MAX_TOTAL_RESULTS)
  \/ IsDef(options.start) /\ ~(IsInt(options.start) /\ options.start.v >= 0)
Blank(str) == str.t = "undefined" \/ \A i \in 1..Len(str.s) : IsSpace(str.s[i])
NothingAsked(options) ==
  Blank(options.searchQuery) /\ (options.idList.t = "undefined" \/ options.idList.ids = << >>)
EmptyIdAmong(ids) == \E i \in 1..Len(ids) : normalizeArxivId(ids[i]) = << >>
InvalidCall ==
  CASE op.name = "search" -> BadPaging(op.options, cfg[op.client]) \/ NothingAsked(op.options)
    [] op.name = "fetchByIds" -> BadPaging(op.given, cfg[op.client]) \/ EmptyIdAmong(op.ids)
    [] op.name = "downloadPdfBuffer" -> normalizeArxivId(op.id) = << >>
    [] OTHER -> FALSE
ValidationMessages ==
  {"pageSize must be a positive integer.", "pageSize cannot exceed MAX_PAGE_SIZE.",
   "maxResults must be a positive integer.", "maxResults cannot exceed MAX_TOTAL_RESULTS.",
   "start must be a non-negative integer.",
   "Provide a search query or at least one arXiv id.",
   "Invalid arXiv ID in id list.", "Invalid arXiv ID."}
ValidationFailed == result.t = "error" /\ result.e.message \in ValidationMessages

\* C13: search, fetchByIds and downloadPdfBuffer called with a pageSize that
\* is no positive integer <= 2000, a maxResults that is no positive integer
\* <= 30000, a start that is no non-negative integer, neither a non-blank
\* searchQuery nor a non-empty idList (search), or an identifier that
\* normalizes to empty, reject without a single HTTP attempt and without
\* entering the retry loop; every validation error is raised with zero
\* attempts made.
C13_ValidationBeforeNetwork ==
  /\ InvalidCall =>
       /\ netCalls = 0
       /\ rpc = "off"
       /\ tries = << >>
       /\ pc \in {"idle", "loop"}
       /\ pc = "idle" => ValidationFailed
  /\ (pc = "idle" /\ ValidationFailed) => netCalls = 0

\* fetchByIds(["1", " "]) was rejected for its second identifier with no
\* HTTP attempt made
C13_Witness ==
  /\ op.name = "fetchByIds"
  /\ op.ids = <<<<"1">>, <<" ">>>>
  /\ ~BadPaging(op.given, cfg[op.client])
  /\ pc = "idle"
  /\ result = Thrown(MkError("Error", "Invalid arXiv ID in id list."))
  /\ netCalls = 0

\* C14: every HTTP attempt, first or retry, is preceded by its own
\* RateLimiter.wait(): a fetch is issued only after a wait() completed
\* since the previous fetch, so the fetches of an operation never outnumber
\* the completed waits, and a completed wait is used by one fetch only.
C14_WaitBeforeEveryFetch ==
  /\ netCalls <= waits
  /\ waits <= netCalls + 1
  /\ rpc = "ready" <=> waits = netCalls + 1
  /\ rpc = "inflight" => (waits = netCalls /\ waitReturns[Self][2] <= now)

\* the second attempt of a request is in flight: two waits completed, the
\* second after the first attempt failed
C14_Witness ==
  /\ rpc = "inflight"
  /\ Len(tries) = 1
  /\ netCalls = 2
  /\ waits = 2
  /\ cfg[Self].minIntervalMs > 0

(***************************************************************************)
(* Two public operations running concurrently on one client                *)
(* (rateLimiter.ts 9-17 as called from client.ts 887 and 898).  Each       *)
(* caller runs turns of the loop of requestWithRetry: wait(), then fetch.  *)
(* The callers share lastRun; a caller is suspended at the timer of        *)
(* wait() and at the network round trip.  loc.tasks holds the position of  *)
(* each caller, hist.returns the returns of wait() in the order they       *)
(* happened, hist.seq numbers the steps of the limiter.                    *)
(***************************************************************************)
Tasks == {1, 2}
IdleTask == [at |-> "idle", due |-> NoTimer, entered |-> 0, enteredAt |-> 0, turns |-> 0]
RaceLoc(tasks) == [f |-> "race", tasks |-> tasks]
RaceHist(seq, returns) == [h |-> "race", seq |-> seq, returns |-> returns]
WaitReturn(t, at, entered, returned) ==
  [task |-> t, at |-> at, entered |-> entered, returned |-> returned]

\* the callbacks of the event loop that are pending, and the next one due
Pending == {t \in Tasks : loc.tasks[t].at \in {"suspended", "inflight"}}
NextDue(t) == t \in Pending /\ \A u \in Pending : loc.tasks[t].due <= loc.tasks[u].due
\* a continuation that is ready runs before any timer or response callback
NoneReady == \A t \in Tasks : loc.tasks[t].at # "ready"

\* the caller starts two public operations without awaiting the first
concurrent_call ==
  /\ pc = "idle"
  /\ loc.f = "none"
  /\ loc' = RaceLoc([t \in Tasks |-> IdleTask])
  /\ hist' = RaceHist(0, << >>)
  /\ UNCHANGED <<now, env, cli, cfg, lastRun, envVars, pc, op, ops, result, retryVars, netCalls,
                 waits, settled, waitReturns, fetchStarts>>

\* line 887 of caller t: rateLimiter.ts 10-13, and 16 when no timer is set
concurrent_wait(t) ==
  /\ loc.f = "race"
  /\ loc.tasks[t].at = "idle"
  /\ loc.tasks[t].turns < MaxTurns
  /\ LET waitMs == waitMsOf(cfg[Self].minIntervalMs, now, lastRun[Self])
         seq == hist.seq + 1
     IN IF waitMs > 0
        THEN /\ loc' = RaceLoc([loc.tasks EXCEPT ![t] =
                         [@ EXCEPT !.at = "suspended", !.due = now + waitMs,
                                   !.entered = seq, !.enteredAt = now]])
             /\ hist' = RaceHist(seq, hist.returns)
             /\ UNCHANGED <<lastRun, waitReturns>>
        ELSE /\ lastRun' = [lastRun EXCEPT ![Self] = now]
             /\ waitReturns' = [waitReturns EXCEPT ![Self] = PushTime(@, now)]
             /\ loc' = RaceLoc([loc.tasks EXCEPT ![t] =
                         [@ EXCEPT !.at = "ready", !.entered = seq, !.enteredAt = now]])
             /\ hist' = RaceHist(seq, Append(hist.returns, WaitReturn(t, now, seq, seq)))
  /\ UNCHANGED <<now, env, cli, cfg, envVars, pc, op, ops, result, retryVars, netCalls, waits,
                 settled, fetchStarts>>

\* the timer of caller t fires (rateLimiter.ts 14), then line 16
concurrent_wake(t) ==
  /\ loc.f = "race"
  /\ loc.tasks[t].at = "suspended"
  /\ NextDue(t)
  /\ NoneReady
  /\ \E late \in env.lateness :
       LET clock == Max(now, loc.tasks[t].due) + late
           seq == hist.seq + 1
       IN /\ clock <= MaxClock
          /\ now' = clock
          /\ lastRun' = [lastRun EXCEPT ![Self] =
                           lastRunAfterTimer(loc.tasks[t].enteredAt, clock)]
          /\ waitReturns' = [waitReturns EXCEPT ![Self] = PushTime(@, clock)]
          /\ hist' = RaceHist(seq, Append(hist.returns,
                                  WaitReturn(t, clock, loc.tasks[t].entered, seq)))
  /\ loc' = RaceLoc([loc.tasks EXCEPT ![t] = [@ EXCEPT !.at = "ready", !.due = NoTimer]])
  /\ UNCHANGED <<env, cli, cfg, envVars, pc, op, ops, result, retryVars, netCalls, waits,
                 settled, fetchStarts>>

\* line 898 of caller t: the fetch is issued in the turn wait() returned in
concurrent_fetch(t) ==
  /\ loc.f = "race"
  /\ loc.tasks[t].at = "ready"
  /\ \E latency \in env.latencies :
       loc' = RaceLoc([loc.tasks EXCEPT ![t] =
                [@ EXCEPT !.at = "inflight", !.due = now + latency, !.turns = @ + 1]])
  /\ fetchStarts' = [fetchStarts EXCEPT ![Self] = PushTime(@, now)]
  /\ UNCHANGED <<now, env, cli, cfg, lastRun, envVars, pc, op, ops, result, retryVars, netCalls,
                 waits, settled, waitReturns, hist>>

\* the round trip of caller t ends; the caller may start another turn
concurrent_response(t) ==
  /\ loc.f = "race"
  /\ loc.tasks[t].at = "inflight"
  /\ NextDue(t)
  /\ NoneReady
  /\ Max(now, loc.tasks[t].due) <= MaxClock
  /\ now' = Max(now, loc.tasks[t].due)
  /\ loc' = RaceLoc([loc.tasks EXCEPT ![t] = [@ EXCEPT !.at = "idle", !.due = NoTimer]])
  /\ UNCHANGED <<env, cli, cfg, lastRun, envVars, pc, op, ops, result, retryVars, netCalls,
                 waits, settled, waitReturns, fetchStarts, hist>>

RaceIntervals == {0, 2, 3}
InitRace ==
  /\ InitCommon
  /\ env = Env(LooseTimers, FewOutcomes, FullFeed, FALSE, 1)
  /\ \E m \in RaceIntervals :
       cfg = [c \in Clients |-> MkConfig(m, 0, 0, FALSE, "", Undef, 2)]
  /\ files = << >>

NextRace ==
  \/ concurrent_call
  \/ \E t \in Tasks : concurrent_wait(t)
  \/ \E t \in Tasks : concurrent_wake(t)
  \/ \E t \in Tasks : concurrent_fetch(t)
  \/ \E t \in Tasks : concurrent_response(t)

SpecRace == InitRace /\ [][NextRace]_vars

InRace == hist.h = "race"
\* returns i and j of wait(), i before j, are closer than the interval
TooClose(i, j) ==
  /\ i < j
  /\ hist.returns[j].at - hist.returns[i].at < cfg[Self].minIntervalMs
\* the wait of return j read lastRun before return i wrote it
Overlapped(i, j) == hist.returns[j].entered < hist.returns[i].returned

\* C15: with two operations running concurrently on one client, two returns
\* of wait() closer than minIntervalMs do occur (the witness), and they occur
\* only between different callers whose waits interleaved: the later one
\* read lastRun before the earlier one wrote it.
C15_RaceOnlyWhenInterleaved ==
  InRace =>
    \A i, j \in 1..Len(hist.returns) :
      TooClose(i, j) =>
        /\ hist.returns[i].task # hist.returns[j].task
        /\ Overlapped(i, j)

\* both callers returned from wait() and issued their fetch less than
\* minIntervalMs apart
C15_Witness ==
  /\ InRace
  /\ \E i, j \in 1..Len(hist.returns) :
       /\ TooClose(i, j)
       /\ hist.returns[i].task # hist.returns[j].task
  /\ fetchStarts[Self][1] # NoTimer
  /\ fetchStarts[Self][2] - fetchStarts[Self][1] < cfg[Self].minIntervalMs
  /\ \A t \in Tasks : loc.tasks[t].turns >= 1

\* C16: within one public operation at most one HTTP attempt is in flight
\* at any time; download handles its items one after the other in input
\* order: a request runs only for item i, and then the outcomes of the i-1
\* items before it, and of no other, are recorded in the order of the input.
InFlight == netCalls - settled
FaultOptions == Options(Query, NoList, Undef, Undef, Undef)
FaultIds == {<<<<"1">>>>, <<<<"1">>, <<"2">>>>}
InitFaults ==
  /\ InitCommon
  /\ cfg = [c \in Clients |-> CacheConfig(1, TRUE, "D", Undef)]
  /\ env = Env(ExactTimers, DownloadOutcomes, FullFeed, TRUE, MaxOps)
  /\ files = << >>

NextFaults ==
  \/ search_call(1, FaultOptions)
  \/ \E ids \in FaultIds : fetchByIds_call(1, ids, Options(NoStr, NoList, Undef, Undef, Undef))
  \/ download_call(1, <<<<"1">>>>, FALSE)
  \/ downloadPdfBuffer_call(1, <<"1">>)
  \/ downloadPdfBuffer_return
  \/ download_item
  \/ download_write
  \/ download_return
  \/ search_page
  \/ request_lookup
  \/ request_store
  \/ search_parse
  \/ RateLimiter_wait
  \/ RateLimiter_wake
  \/ requestWithRetry_fetch
  \/ requestWithRetry_response
  \/ requestWithRetry_catch
  \/ requestWithRetry_backoff

SpecFaults == InitFaults /\ [][NextFaults]_vars

MetadataOp == op.name \in {"search", "fetchByIds"}
\* the rejection of mkdir or writeFile on the cache directory
DiskWriteError == MkError("Error", "EACCES")

\* C17: disk-cache failures are never propagated to the caller of search or
\* fetchByIds: the operation never ends with the error of a disk write,
\* and when the network answered its last request with a readable page the
\* operation goes on to parse it.
C17_CacheFailuresNotPropagated ==
  (MetadataOp /\ pc = "idle" /\ result.t = "error") =>
    /\ result.e # DiskWriteError
    /\ (rresult.t = "value" => ~rresult.v.readable)

\* C18: the PDF fetches of download and downloadPdfBuffer never read and
\* never write the memory cache or the disk cache, whatever the cache
\* settings: no step of these operations changes either tier, and every
\* valid item that is not skipped, like every valid downloadPdfBuffer, went
\* to the network through requestWithRetry.
BinaryOp == op.name \in {"download", "downloadPdfBuffer"}
WentToNetwork ==
  /\ InDownload =>
       \A k \in Processed :
         (ValidId(k) /\ loc.results[k].status # "skipped") => hist.items[k].calls >= 1
  /\ (op.name = "downloadPdfBuffer" /\ pc = "idle" /\ normalizeArxivId(op.id) # << >>) =>
       netCalls >= 1
C18_BinaryBypassesCaches ==
  /\ []WentToNetwork
  /\ [][BinaryOp' => (cache' = cache /\ disk' = disk)]_vars

\* a download on a client whose two cache tiers hold a page of an earlier
\* search ends with a file written from the network
C18_Witness ==
  /\ InDownload
  /\ pc = "idle"
  /\ cfg[Self].cache
  /\ cache[Self] # << >>
  /\ disk # << >>
  /\ \E k \in Processed :
       /\ loc.results[k].status = "downloaded"
       /\ hist.items[k].calls >= 1

(***************************************************************************)
(* Searches of two clients sharing a cache directory, with no TTL, with a  *)
(* TTL the idle time between two searches exceeds, and with one it equals. *)
(***************************************************************************)
TtlRuns == {Undef, Num(0), Num(MaxGap - 1), Num(MaxGap)}
InitTtl ==
  /\ InitCommon
  /\ \E ttl \in TtlRuns : cfg = [c \in Clients |-> CacheConfig(1, TRUE, "D", ttl)]
  /\ env = Env(ExactTimers, DownloadOutcomes, FullFeed, FALSE, MaxOps)
  /\ files = << >>

NextTtl ==
  \/ \E c \in Clients : search_call(c, FaultOptions)
  \/ search_page
  \/ request_lookup
  \/ request_store
  \/ search_parse
  \/ RateLimiter_wait
  \/ RateLimiter_wake
  \/ requestWithRetry_fetch
  \/ requestWithRetry_response
  \/ requestWithRetry_catch
  \/ requestWithRetry_backoff

SpecTtl == InitTtl /\ [][NextTtl]_vars

\* request is at its lookup, the memory map misses, a cache directory is set
DiskLookup ==
  /\ pc = "request"
  /\ diskConfigured(cfg[Self])
  /\ ~Has(cache[Self], loc.url)
EntryPath == CachePath(cfg[Self].cacheDir, loc.url)
\* the entry exists and, when a TTL is configured, now - mtime <= cacheTtlMs
Servable ==
  /\ Has(disk, EntryPath)
  /\ IsInt(cfg[Self].cacheTtlMs) =>
       now - disk[EntryPath].mtimeMs <= cfg[Self].cacheTtlMs.v

\* C19: on a memory miss with a cache directory configured, the disk entry
\* of the URL is served if and only if it exists and, when cacheTtlMs is
\* configured, now - mtime <= cacheTtlMs; with no TTL an existing entry is
\* always served; a stale entry is a miss, the request goes to the network,
\* and the lookup leaves the directory as it was.
C19_DiskEntryServedIffFresh ==
  [][DiskLookup =>
       /\ Servable => (pc' = "parse" /\ loc'.text = disk[EntryPath].payload /\ rpc' = "off")
       /\ ~Servable => (pc' = "network" /\ rpc' # "off")
       /\ disk' = disk]_vars

\* a stale entry was passed over: the request is on its way to the network
\* and the entry is still in the directory, older than the TTL
C19_Witness ==
  /\ pc = "network"
  /\ netCalls = 0
  /\ diskConfigured(cfg[Self])
  /\ IsInt(cfg[Self].cacheTtlMs)
  /\ Has(disk, EntryPath)
  /\ now - disk[EntryPath].mtimeMs > cfg[Self].cacheTtlMs.v

\* C20: when the retry budget is exhausted the caller receives the error of
\* the last attempt: the response error of a final non-2xx response, even
\* when an earlier attempt failed at transport level, and the transport
\* error of a final attempt that failed at transport level.
BudgetExhausted == rpc = "threw" /\ Len(tries) = cfg[Self].maxRetries + 1
LastTry == tries[Len(tries)]
C20_LastErrorSurfaces ==
  BudgetExhausted =>
    /\ rresult.t = "error"
    /\ IsResponse(LastTry) =>
         rresult.e = ResponseError(LastTry.status, StatusText(LastTry.status))
    /\ ~IsResponse(LastTry) =>
         /\ rresult.e.name = LastTry.error
         /\ rresult.e.name # "ResponseError"

\* the first attempt failed at transport level, the second and last one
\* was answered 500, and the caller gets the response error
C20_Witness ==
  /\ BudgetExhausted
  /\ cfg[Self].maxRetries = 1
  /\ ~IsResponse(tries[1])
  /\ tries[2].status = 500
  /\ rresult.e.name = "ResponseError"
  /\ rresult.e.status = 500

(***************************************************************************)
(* Requests whose retryable responses carry every kind of Retry-After      *)
(* header, with the delays slept recorded.                                 *)
(***************************************************************************)
DelayRuns == {RetryConfig(0, 2, 2), RetryConfig(1, 2, 1), RetryConfig(0, 1, 0)}
InitDelay ==
  /\ InitState
  /\ hist = DelayHist
  /\ \E run \in DelayRuns : cfg = [c \in Clients |-> run]
  /\ env = Env(LooseTimers, FewOutcomes, FullFeed, FALSE, 1)
  /\ files = << >>

SpecDelay == InitDelay /\ [][NextRetry]_vars

\* the delay the header of a response received at time at asks for
HeaderAsks(header, at) ==
  CASE header.h = "seconds" -> (IF header.v * 1000 >= 0 THEN header.v * 1000 ELSE 0)
    [] header.h = "date" -> (IF header.v - at >= 0 THEN header.v - at ELSE 0)
Parseable(header) == header.h \in {"seconds", "date"}
\* min(baseDelay * 16, baseDelay * 2^attempt) + a jitter below baseDelay
BackoffRange(baseDelayMs, att) ==
  LET exp == Min(baseDelayMs * 16, baseDelayMs * Pow2(att))
  IN {exp + j : j \in 0..Max(baseDelayMs - 1, 0)}
LastSlept == hist.delays[Len(hist.delays)]

\* C21: after a retryable response the delay slept before the next attempt
\* is the Retry-After value (seconds x 1000, or HTTP-date minus now, clamped
\* to >= 0) whenever the header is present and parseable, and the computed
\* backoff only otherwise; the next attempt starts only after that delay has
\* elapsed.
C21_RetryAfterDelay ==
  /\ \A k \in 1..Len(hist.delays) :
       LET s == hist.delays[k]
       IN IF Parseable(s.header)
          THEN s.delay = HeaderAsks(s.header, s.at)
          ELSE s.delay \in BackoffRange(cfg[Self].retryBaseDelayMs, s.attempt)
  /\ (rpc = "sleeping" /\ IsResponse(LastTry)) => timerAt = LastSlept.at + LastSlept.delay
  /\ (rpc \in {"top", "limiter", "ready", "inflight"} /\ tries # << >> /\ IsResponse(LastTry)) =>
       /\ now >= LastSlept.at + LastSlept.delay
       /\ Len(hist.delays) >= 1
  /\ (rpc = "inflight" /\ tries # << >> /\ IsResponse(LastTry)) =>
       fetchStarts[Self][2] >= LastSlept.at + LastSlept.delay

\* the second attempt is in flight one second after a response whose
\* Retry-After said 1, the backoff being shorter
C21_Witness ==
  /\ rpc = "inflight"
  /\ Len(tries) = 1
  /\ IsResponse(LastTry)
  /\ LastSlept.header = SecondsHeader(1)
  /\ LastSlept.delay = 1000
  /\ fetchStarts[Self][2] >= LastSlept.at + 1000
  /\ ~(1000 \in BackoffRange(cfg[Self].retryBaseDelayMs, LastSlept.attempt))

(***************************************************************************)
(* normalizeArxivId (client.ts 431-440) applied to identifiers made of the *)
(* decorations it strips, and applied again to its own result.             *)
(***************************************************************************)
IdTokens ==
  {<<"a", "r", "X", "i", "v", ":">>,
   <<"h", "t", "t", "p", "s", ":", "/", "/", "a", "r", "x", "i", "v", ".", "o", "r", "g",
     "/", "a", "b", "s", "/">>,
   <<"1">>, <<".", "p", "d", "f">>, <<"/">>, <<" ">>, <<"?", "x">>}
RECURSIVE Concat(_)
Concat(pieces) == IF pieces = << >> THEN << >> ELSE pieces[1] \o Concat(Tail(pieces))
TokenIds == {Concat(pieces) : pieces \in UNION {[1..n -> IdTokens] : n \in 1..MaxTokens}}

NormalizeLoc(once, applied) == [f |-> "normalize", once |-> once, applied |-> applied]
normalizeArxivId_call(id) ==
  /\ BeginOp([name |-> "normalizeArxivId", client |-> 1, id |-> id])
  /\ result' = Value(normalizeArxivId(id))
  /\ loc' = NormalizeLoc(normalizeArxivId(id), 1)
  /\ pc' = "normalized"
  /\ UNCHANGED <<env, cli, cfg, lastRun, envVars, retryVars, waitReturns, fetchStarts, hist>>

\* the caller normalizes what it got
normalizeArxivId_again ==
  /\ pc = "normalized"
  /\ result' = Value(normalizeArxivId(result.v))
  /\ loc' = NormalizeLoc(loc.once, loc.applied + 1)
  /\ pc' = "idle"
  /\ UNCHANGED <<now, env, cli, cfg, lastRun, envVars, op, ops, retryVars, obsVars, hist>>

InitNormalize ==
  /\ InitCommon
  /\ cfg = [c \in Clients |-> RetryConfig(0, 0, 0)]
  /\ env = Env(ExactTimers, FewOutcomes, FullFeed, FALSE, 1)
  /\ files = << >>

NextNormalize ==
  \/ \E id \in TokenIds : normalizeArxivId_call(id)
  \/ normalizeArxivId_again

SpecNormalize == InitNormalize /\ [][NextNormalize]_vars

\* C22: identifier normalization is idempotent: for every input string x,
\* normalizeArxivId(normalizeArxivId(x)) = normalizeArxivId(x).
C22_NormalizeIdempotent ==
  (op.name = "normalizeArxivId" /\ pc = "idle") => result.v = loc.once

\* C23: fetchByIds with an empty id list validates pageSize, maxResults and
\* start, rejecting invalid ones, and then returns the empty result
\* {totalResults: 0, startIndex: start, itemsPerPage: 0, entries: []} with no
\* rate-limiter wait, no cache access and no network call.
EmptyFetch == op.name = "fetchByIds" /\ op.ids = << >>
GivenStart == IF IsDef(op.given.start) THEN op.given.start.v ELSE 0
C23_EmptyIdsShortCircuit ==
  EmptyFetch =>
    /\ pc = "idle"
    /\ rpc = "off"
    /\ netCalls = 0
    /\ waits = 0
    /\ waitReturns[op.client] = NoTimes
    /\ cache[op.client] = << >>
    /\ disk = << >>
    /\ IF BadPaging(op.given, cfg[op.client])
       THEN ValidationFailed
       ELSE /\ result.t = "value"
            /\ result.v.totalResults = 0
            /\ result.v.startIndex = GivenStart
            /\ result.v.itemsPerPage = 0
            /\ result.v.entries = << >>

\* fetchByIds([], {start: 1, maxResults: 1, pageSize: 1}) returned the empty
\* result with startIndex 1
C23_Witness ==
  /\ EmptyFetch
  /\ op.given.start = Num(1)
  /\ result.t = "value"
  /\ result.v.startIndex = 1
  /\ result.v.entries = << >>
  /\ netCalls = 0

(***************************************************************************)
(* fetchByIds on one, two and three identifiers with a page size of 1 or 2 *)
(* and with or without an explicit maxResults.                             *)
(***************************************************************************)
FetchAllIds == {<<<<"1">>>>, <<<<"1">>, <<"2">>>>, <<<<"1">>, <<"2">>, <<"0">>>>}
FetchAllOptions ==
  {Options(NoStr, NoList, Undef, Undef, Undef),
   Options(NoStr, NoList, Undef, Undef, Num(1)),
   Options(NoStr, NoList, Undef, Num(1), Undef)}
InitFetch ==
  /\ InitCommon
  /\ cfg = [c \in Clients |-> MkConfig(1, 1, 0, FALSE, "", Undef, 2)]
  /\ env = Env(ExactTimers, DownloadOutcomes, FullFeed, FALSE, 1)
  /\ files = << >>

NextFetch ==
  \/ \E ids \in FetchAllIds, options \in FetchAllOptions : fetchByIds_call(1, ids, options)
  \/ search_page
  \/ request_lookup
  \/ request_store
  \/ search_parse
  \/ RateLimiter_wait
  \/ RateLimiter_wake
  \/ requestWithRetry_fetch
  \/ requestWithRetry_response
  \/ requestWithRetry_catch
  \/ requestWithRetry_backoff

SpecFetch == InitFetch /\ [][NextFetch]_vars

\* fetchByIds on a non-empty list with no explicit maxResults
FetchAllByDefault ==
  /\ op.name = "fetchByIds"
  /\ op.ids # << >>
  /\ ~IsDef(op.given.maxResults)
  /\ loc.f = "search"
RECURSIVE SumOver(_, _)
SumOver(f, n) == IF n = 0 THEN 0 ELSE f[n] + SumOver(f, n - 1)
Asked == [i \in 1..Len(hist.pages) |-> hist.pages[i].batchSize]
Got == [i \in 1..Len(hist.pages) |-> PageCount(i)]
\* the provider served every request in full and reported all the ids
ServedInFull ==
  \A i \in 1..Len(hist.pages) :
    /\ PageCount(i) = hist.pages[i].batchSize
    /\ hist.pages[i].parsed.totalResults >= Len(op.ids)
CeilDiv(a, b) == (a + b - 1) \div b

\* C24: fetchByIds with a non-empty id list and no explicit maxResults
\* requests all ids: maxResults defaults to the number of ids, so when that
\* number exceeds pageSize the call paginates, each request asking for the
\* ids not yet received, pageSize at a time, until every id has been
\* requested: with the provider serving each request in full, n ids take
\* ceil(n / pageSize) requests and give n entries.
C24_FetchByIdsRequestsAll ==
  FetchAllByDefault =>
    /\ loc.maxResults = Len(op.ids)
    /\ loc.fetchAll <=> Len(op.ids) > loc.pageSize
    /\ \A i \in 1..Len(hist.pages) :
         /\ hist.pages[i].batchSize = Min(loc.pageSize, Len(op.ids) - SumOver(Got, i - 1))
         /\ hist.pages[i].requestStartIndex = SumOver(Got, i - 1)
    /\ (pc = "idle" /\ result.t = "value" /\ ServedInFull) =>
         /\ SumOver(Asked, Len(hist.pages)) = Len(op.ids)
         /\ Len(result.v.entries) = Len(op.ids)
         /\ Len(hist.pages) = CeilDiv(Len(op.ids), loc.pageSize)

\* three ids with pageSize 2 gave two requests and three entries
C24_Witness ==
  /\ FetchAllByDefault
  /\ Len(op.ids) = 3
  /\ loc.pageSize = 2
  /\ pc = "idle"
  /\ result.t = "value"
  /\ Len(hist.pages) = 2
  /\ Len(hist.requests) = 2
  /\ Len(result.v.entries) = 3

(***************************************************************************)
(* buildQuery (query.ts 56-117) with its parameters spelled out: a         *)
(* URLSearchParams is the sequence of its [key, value] entries, a value a  *)
(* string.                                                                 *)
(***************************************************************************)
Param(key, value) == [key |-> key, value |-> value]
HasKey(list, key) == \E i \in 1..Len(list) : list[i].key = key
\* URLSearchParams.set: the first entry of the key takes the value, the
\* other entries of the key are removed; a new key is appended
URLSearchParams_set(list, key, value) ==
  IF HasKey(list, key)
  THEN LET first == CHOOSE i \in 1..Len(list) :
                      list[i].key = key /\ \A j \in 1..(i - 1) : list[j].key # key
       IN Take(list, first - 1) \o <<Param(key, value)>>
            \o SelectSeq(Drop(list, first), LAMBDA e : e.key # key)
  ELSE Append(list, Param(key, value))
\* for (const [key, value] of entries) target.set(key, value)  (107-112)
RECURSIVE SetAll(_, _)
SetAll(target, entries) ==
  IF entries = << >> THEN target
  ELSE SetAll(URLSearchParams_set(target, entries[1].key, entries[1].value), Tail(entries))

\* String(n) for a non-negative integer
Digits == <<"0", "1", "2", "3", "4", "5", "6", "7", "8", "9">>
RECURSIVE String(_)
String(n) == IF n < 10 THEN <<Digits[n + 1]>> ELSE String(n \div 10) \o <<Digits[(n % 10) + 1]>>
\* idList.join(",")
RECURSIVE Join(_)
Join(items) ==
  IF Len(items) = 0 THEN << >>
  ELSE IF Len(items) = 1 THEN items[1]
  ELSE items[1] \o <<",">> \o Join(Tail(items))

QueryOptions(searchQuery, idList, start, maxResults, sortBy, sortOrder) ==
  [searchQuery |-> searchQuery, idList |-> idList, start |-> start,
   maxResults |-> maxResults, sortBy |-> sortBy, sortOrder |-> sortOrder]

\* line 73 asking for exactly one of the two
exactlyOneGiven(hasSearchQuery, hasIdList) == hasSearchQuery # hasIdList
\* line 73: params.has("search_query") || params.has("id_list")
queryGiven(hasSearchQuery, hasIdList) == hasSearchQuery \/ hasIdList

\* lines 60-97: the parameters the component sets, or the error thrown
componentParams(options) ==
  LET searchQuery == IF options.searchQuery.t = "undefined" THEN << >>
                     ELSE Trim(options.searchQuery.s)
      idList == normalizeList(options.idList)
      p1 == IF searchQuery # << >>
            THEN URLSearchParams_set(<< >>, "search_query", searchQuery) ELSE << >>
      p2 == IF idList # << >> THEN URLSearchParams_set(p1, "id_list", Join(idList)) ELSE p1
      p3 == IF IsDef(options.start) /\ IsInt(options.start) /\ options.start.v >= 0
            THEN URLSearchParams_set(p2, "start", String(options.start.v)) ELSE p2
      p4 == IF IsDef(options.maxResults) /\ IsInt(options.maxResults) /\ options.maxResults.v >= 1
            THEN URLSearchParams_set(p3, "max_results", String(options.maxResults.v)) ELSE p3
      p5 == IF options.sortBy.t = "string" /\ options.sortBy.s # << >>
            THEN URLSearchParams_set(p4, "sortBy", options.sortBy.s) ELSE p4
      p6 == IF options.sortOrder.t = "string" /\ options.sortOrder.s # << >>
            THEN URLSearchParams_set(p5, "sortOrder", options.sortOrder.s) ELSE p5
  IN IF ~queryGiven(HasKey(p2, "search_query"), HasKey(p2, "id_list"))
     THEN Thrown(MkError("Error", "Provide a search query or at least one arXiv id."))
     ELSE IF IsDef(options.start) /\ ~(IsInt(options.start) /\ options.start.v >= 0)
     THEN Thrown(MkError("Error", "start must be a non-negative integer."))
     ELSE IF IsDef(options.maxResults) /\ ~(IsInt(options.maxResults) /\ options.maxResults.v >= 1)
     THEN Thrown(MkError("Error", "maxResults must be a positive integer."))
     ELSE Value(p6)

\* lines 99-116: the parameters of the base URL, then those of the
\* component, merged with set
mergedParams(baseParams, params) == SetAll(SetAll(<< >>, baseParams), params)
buildQueryParams(baseParams, options) ==
  LET params == componentParams(options)
  IN IF params.t = "error" THEN params ELSE Value(mergedParams(baseParams, params.v))

buildQuery_call(baseParams, options) ==
  /\ BeginOp([name |-> "buildQuery", client |-> 1, baseParams |-> baseParams,
              options |-> options])
  /\ loc' = [f |-> "buildQuery", params |-> componentParams(options)]
  /\ pc' = "built"
  /\ result' = NoResult
  /\ UNCHANGED <<env, cli, cfg, lastRun, envVars, retryVars, waitReturns, fetchStarts, hist>>

buildQuery_return ==
  /\ pc = "built"
  /\ result' = buildQueryParams(op.baseParams, op.options)
  /\ pc' = "idle"
  /\ UNCHANGED <<now, env, cli, cfg, lastRun, envVars, op, ops, loc, retryVars, obsVars, hist>>

BaseEntries ==
  {Param(key, value) : key \in {"a", "start", "sortBy"}, value \in {<<"0">>, <<"9">>}}
BaseParamLists == UNION {[1..n -> BaseEntries] : n \in 0..MaxBaseParams}
BuildOptions ==
  {QueryOptions(searchQuery, idList, start, maxResults, sortBy, NoStr) :
     searchQuery \in {NoStr, Str(<<"q">>), Str(<<" ">>)},
     idList \in {NoList, List(<< >>), List(<<<<"1">>, <<"2">>>>)},
     start \in {Undef, Num(0), Num(-1)},
     maxResults \in {Undef, Num(10)},
     sortBy \in {NoStr, Str(<<"r">>)}}
    \cup {QueryOptions(Str(<<"q">>), NoList, Undef, Undef, NoStr, Str(<<"d">>))}

InitQuery ==
  /\ InitCommon
  /\ cfg = [c \in Clients |-> RetryConfig(0, 0, 0)]
  /\ env = Env(ExactTimers, FewOutcomes, FullFeed, FALSE, 1)
  /\ files = << >>

NextQuery ==
  \/ /\ ops < env.maxOps
     /\ \E baseParams \in BaseParamLists, options \in BuildOptions :
          buildQuery_call(baseParams, options)
  \/ buildQuery_return

SpecQuery == InitQuery /\ [][NextQuery]_vars

Built == op.name = "buildQuery" /\ pc = "idle" /\ result.t = "value"
Occurrences(list, key) == Cardinality({i \in 1..Len(list) : list[i].key = key})
ComponentKeys == {loc.params.v[i].key : i \in 1..Len(loc.params.v)}

\* C25: buildQuery on a base URL that already carries query parameters
\* returns a URL that keeps every existing parameter the component does not
\* set, and carries exactly one occurrence, with the component's value, of
\* each parameter the component sets.
C25_BaseParamsKept ==
  Built =>
    /\ \A i \in 1..Len(op.baseParams) :
         op.baseParams[i].key \notin ComponentKeys =>
           \E j \in 1..Len(result.v) : result.v[j] = op.baseParams[i]
    /\ \A i \in 1..Len(loc.params.v) :
         /\ Occurrences(result.v, loc.params.v[i].key) = 1
         /\ \E j \in 1..Len(result.v) : result.v[j] = loc.params.v[i]

\* what the options of the call put into the built parameters
SearchQueryPresent ==
  op.options.searchQuery.t = "string" /\ ~Blank(op.options.searchQuery)
IdListPresent ==
  op.options.idList.t = "list"
    /\ \E i \in 1..Len(op.options.idList.ids) :
         \E k \in 1..Len(op.options.idList.ids[i]) : ~IsSeparator(op.options.idList.ids[i][k])
BuildEnded == op.name = "buildQuery" /\ pc = "idle"
NeitherMessage == "Provide a search query or at least one arXiv id."
PagingAccepted ==
  /\ IsDef(op.options.start) => (IsInt(op.options.start) /\ op.options.start.v >= 0)
  /\ IsDef(op.options.maxResults) =>
       (IsInt(op.options.maxResults) /\ op.options.maxResults.v >= 1)

Entry(id, licenseUrl, license) == [id |-> id, licenseUrl |-> licenseUrl, license |-> license]
LicenseMissing == "License metadata missing"

\* license.ts 24 left out: every entry counts as licensed
hasLicenseAlways(entry) == TRUE
\* license.ts 23-24: Boolean(entry.licenseUrl || entry.license)
hasLicenseMetadata(entry) == entry.licenseUrl # << >> \/ entry.license # << >>

\* cli.ts 820-821: normalizeArxivId(id).replace(/v\d+$/i, "")
IsDigit(c) == \E d \in 1..Len(Digits) : Digits[d] = c
RECURSIVE StripTrailingDigits(_)
StripTrailingDigits(s) ==
  IF s # << >> /\ IsDigit(s[Len(s)]) THEN StripTrailingDigits(SubSeq(s, 1, Len(s) - 1)) ELSE s
StripVersion(s) ==
  LET head == StripTrailingDigits(s)
  IN IF Len(head) < Len(s) /\ head # << >> /\ head[Len(head)] \in {"v", "V"}
     THEN SubSeq(head, 1, Len(head) - 1)
     ELSE s
normalizeArxivBaseId(id) == StripVersion(normalizeArxivId(id))

\* cli.ts 828-842: byId and byBaseId keep the first entry of each key; a
\* lookup is the entry list, get(key) the first entry with that key
byId_get(entries, key) ==
  LET hits == {i \in 1..Len(entries) : normalizeArxivId(entries[i].id) = key}
  IN IF hits = {} THEN << >> ELSE <<entries[CHOOSE i \in hits : \A j \in hits : i <= j]>>
byBaseId_get(entries, key) ==
  LET hits == {i \in 1..Len(entries) : normalizeArxivBaseId(entries[i].id) = key}
  IN IF hits = {} THEN << >> ELSE <<entries[CHOOSE i \in hits : \A j \in hits : i <= j]>>
\* cli.ts 844-847: the entry in a one-element list, or the empty list
resolveEntry(rawId, lookup) ==
  LET exact == byId_get(lookup, normalizeArxivId(rawId))
  IN IF exact # << >> THEN exact ELSE byBaseId_get(lookup, normalizeArxivBaseId(rawId))

\* cli.ts 849-870
RECURSIVE filterIdsByLicense(_, _)
filterIdsByLicense(ids, lookup) ==
  IF ids = << >> THEN [allowed |-> << >>, failed |-> << >>]
  ELSE LET rawId == Head(ids)
           entry == resolveEntry(rawId, lookup)
           rest == filterIdsByLicense(Tail(ids), lookup)
       IN IF entry = << >> \/ ~hasLicenseMetadata(entry[1])
          THEN [allowed |-> rest.allowed,
                failed |-> <<Outcome(normalizeArxivId(rawId), << >>, "failed", LicenseMissing)>>
                             \o rest.failed]
          ELSE [allowed |-> <<rawId>> \o rest.allowed, failed |-> rest.failed]

\* the entries the parser hands over for a metadata result: the provider
\* decides the identifier and the licence fields of each
LicenseEntryIds == {<<"1", "v", "1">>, <<"2">>}
\* no licence field, a licence URL only, a licence string only
LicenseFields == {<<<< >>, << >>>>, <<<<"u">>, << >>>>, <<<< >>, <<"c">>>>}
LicenseEntries ==
  {Entry(id, fields[1], fields[2]) : id \in LicenseEntryIds, fields \in LicenseFields}
MetadataOf(tags) == [1..Len(tags) -> LicenseEntries]

CliLoc(position, ids, overwrite, entries, allowed, results) ==
  [pc |-> position, ids |-> ids, overwrite |-> overwrite, entries |-> entries,
   allowed |-> allowed, results |-> results]

\* cli.ts 313-361: the identifiers are resolved and not empty, the format is
\* pdf and requireLicense is set
cli_download_call(ids, overwrite) ==
  /\ cli = NoCli
  /\ pc = "idle"
  /\ ids # << >>
  /\ cli' = CliLoc("metadata", ids, overwrite, << >>, << >>, << >>)
  /\ UNCHANGED <<now, env, cfg, lastRun, envVars, pc, op, ops, result, loc, retryVars,
                 obsVars, hist>>

\* cli.ts 364: await client.fetchByIds(ids)
cli_download_fetchByIds ==
  /\ cli.pc = "metadata"
  /\ op.name = "none"
  /\ fetchByIds_call(1, cli.ids, Options(NoStr, NoList, Undef, Undef, Undef))

\* cli.ts 364-367: fetchByIds settled; createEntryLookup, filterIdsByLicense
\* and results = [...filtered.failed]
cli_download_filter ==
  /\ cli.pc = "metadata"
  /\ op.name = "fetchByIds"
  /\ pc = "idle"
  /\ IF result.t = "error"
     THEN cli' = [cli EXCEPT !.pc = "threw"]
     ELSE \E entries \in MetadataOf(result.v.entries) :
            LET filtered == filterIdsByLicense(cli.ids, entries)
            IN cli' = CliLoc(IF Len(filtered.allowed) > 0 THEN "download" ELSE "done",
                             cli.ids, cli.overwrite, entries, filtered.allowed,
                             filtered.failed)
  /\ UNCHANGED <<now, env, cfg, lastRun, envVars, pc, op, ops, result, loc, retryVars,
                 obsVars, hist>>

\* cli.ts 369: await client.download(filtered.allowed, outputDir, args.overwrite)
cli_download_download ==
  /\ cli.pc = "download"
  /\ op.name = "fetchByIds"
  /\ download_call(1, cli.allowed, cli.overwrite)

\* cli.ts 369-370: download settled; results = results.concat(downloaded)
cli_download_concat ==
  /\ cli.pc = "download"
  /\ op.name = "download"
  /\ pc = "idle"
  /\ cli' = [cli EXCEPT !.pc = "done", !.results = @ \o result.v]
  /\ UNCHANGED <<now, env, cfg, lastRun, envVars, pc, op, ops, result, loc, retryVars,
                 obsVars, hist>>

LicenseIds == {<<"1">>, <<"1", "v", "2">>, <<"2">>, <<"3">>}
LicenseIdLists ==
  {<<id>> : id \in LicenseIds} \cup {<<<<"1">>, <<"2">>>>, <<<<"3">>, <<"1", "v", "2">>>>}
InitLicense ==
  /\ InitCommon
  /\ cfg = [c \in Clients |-> MkConfig(1, 1, 0, FALSE, "", Undef, 2)]
  /\ env = Env(ExactTimers, DownloadOutcomes, FullFeed, FALSE, 2)
  /\ files = << >>

NextLicense ==
  \/ \E ids \in LicenseIdLists : cli_download_call(ids, FALSE)
  \/ cli_download_fetchByIds
  \/ cli_download_filter
  \/ cli_download_download
  \/ cli_download_concat
  \/ search_page
  \/ request_lookup
  \/ request_store
  \/ search_parse
  \/ download_item
  \/ download_write
  \/ download_return
  \/ RateLimiter_wait
  \/ RateLimiter_wake
  \/ requestWithRetry_fetch
  \/ requestWithRetry_response
  \/ requestWithRetry_catch
  \/ requestWithRetry_backoff

SpecLicense == InitLicense /\ [][NextLicense]_vars

InLicenseRun == cli.pc # "off"
PdfRequest == rpc # "off" /\ rurl.kind = "pdf"
\* the identifier resolves to no entry of the metadata, or to one with
\* neither a licence URL nor a licence string
Blocked(rawId) ==
  LET entry == resolveEntry(rawId, cli.entries)
  IN entry = << >> \/ (entry[1].licenseUrl = << >> /\ entry[1].license = << >>)
BlockedIds == SelectSeq(cli.ids, Blocked)
LicenseFailures ==
  SelectSeq(cli.results, LAMBDA r : r.status = "failed" /\ r.error = LicenseMissing)

\* C27: with license enforcement the download command first fetches the
\* metadata of all identifiers in one fetchByIds call; no PDF request is made
\* before that call has settled, nor ever for an identifier whose resolved
\* entry is missing or carries neither a licence URL nor a licence string;
\* each such identifier gets the outcome failed / "License metadata missing"
\* with an empty path, and the results hold one outcome per requested
\* identifier.
C27_LicenseGate ==
  InLicenseRun =>
    /\ cli.pc = "metadata" =>
         /\ op.name \in {"none", "fetchByIds"}
         /\ op.name = "fetchByIds" => (op.ids = cli.ids /\ ops = 1)
         /\ ~PdfRequest
    /\ PdfRequest =>
         /\ cli.pc = "download"
         /\ ops = 2
         /\ \A k \in 1..Len(cli.ids) :
              normalizeArxivId(cli.ids[k]) = rurl.ref => ~Blocked(cli.ids[k])
    /\ cli.pc = "done" =>
         /\ Len(cli.results) = Len(cli.ids)
         /\ LicenseFailures =
              [k \in 1..Len(BlockedIds) |->
                 Outcome(normalizeArxivId(BlockedIds[k]), << >>, "failed", LicenseMissing)]
         /\ ops = (IF Len(BlockedIds) = Len(cli.ids) THEN 1 ELSE 2)
    /\ cli.pc = "threw" => (netCalls >= 1 => rurl.kind = "query")

\* a run with one identifier blocked and one downloaded
C27_Witness ==
  /\ cli.pc = "done"
  /\ Len(cli.ids) = 2
  /\ Len(BlockedIds) = 1
  /\ \E j \in 1..Len(cli.results) : cli.results[j].status = "downloaded"


(***************************************************************************)
(* new ArxivClient(config) (client.ts 389-494, 548-565)                    *)
(***************************************************************************)
\* What a caller may put under a key of the partial configuration: nothing
\* (the key is absent), undefined, a number (an integer, a finite
\* non-integer, or NaN / an infinity / a value that is no number), or a URL
\* text, which new URL() either rejects or parses into a scheme and a path.
Absent == [t |-> "absent"]
NotFinite == [t |-> "nan"]
NotUrl == [t |-> "text"]
Url(scheme, endsWithSlash) == [t |-> "url", scheme |-> scheme, endsWithSlash |-> endsWithSlash]
NoConfig == [t |-> "none"]

UrlFields == {"apiBaseUrl", "pdfBaseUrl"}
IntegerFields == {"timeoutMs", "minIntervalMs", "maxRetries", "retryBaseDelayMs", "pageSize"}
ConfigFields == UrlFields \cup IntegerFields

\* lines 416-429, the validated settings
defaultConfig ==
  [f \in ConfigFields |->
     CASE f = "apiBaseUrl" -> Url("https", FALSE)
       [] f = "pdfBaseUrl" -> Url("https", TRUE)
       [] f = "timeoutMs" -> Num(20000)
       [] f = "minIntervalMs" -> Num(3000)
       [] f = "pageSize" -> Num(DEFAULT_PAGE_SIZE)
       [] f = "maxRetries" -> Num(3)
       [] OTHER -> Num(500)]

\* line 549: { ...defaultConfig, ...config }; a key given as undefined
\* overrides the default
spread(defaults, config) ==
  [f \in ConfigFields |-> IF config[f] = Absent THEN defaults[f] ELSE config[f]]

\* lines 442-454
parseHttpUrl(label, value) ==
  IF value.t # "url" THEN Thrown(MkError("Error", label \o " must be a valid URL."))
  ELSE IF value.scheme \notin {"http", "https"}
  THEN Thrown(MkError("Error", label \o " must use http or https."))
  ELSE Value(value)
\* lines 456-457
normalizeApiBaseUrl(value) == parseHttpUrl("apiBaseUrl", value)
\* lines 459-465
normalizePdfBaseUrl(value) ==
  LET parsed == parseHttpUrl("pdfBaseUrl", value)
  IN IF parsed.t = "error" THEN parsed
     ELSE Value([parsed.v EXCEPT !.endsWithSlash = TRUE])

Passed == Value("ok")
\* lines 484-489 left out: no lower bound is enforced
assertIntegerConfigUnbounded(label, value, min, allowZero) ==
  IF ~IsInt(value) THEN Thrown(MkError("Error", label \o " must be an integer."))
  ELSE IF allowZero /\ value.v = 0 THEN Passed
  ELSE IF ~allowZero /\ value.v <= 0
  THEN Thrown(MkError("Error", label \o " must be a positive integer."))
  ELSE Passed
\* lines 471-494; min is Undef when the option is not given
assertIntegerConfig(label, value, min, allowZero) ==
  IF ~IsInt(value) THEN Thrown(MkError("Error", label \o " must be an integer."))
  ELSE IF allowZero /\ value.v = 0 THEN Passed
  ELSE IF IsDef(min) /\ value.v < min.v
  THEN (IF min.v = 0
        THEN Thrown(MkError("Error", label \o " must be a non-negative integer."))
        ELSE Thrown(MkError("Error", label \o " must be an integer >= " \o "1.")))
  ELSE IF ~allowZero /\ value.v <= 0
  THEN Thrown(MkError("Error", label \o " must be a positive integer."))
  ELSE Passed

\* lines 548-558: the first check that throws ends the construction
RECURSIVE FirstThrown(_)
FirstThrown(checks) ==
  IF checks = << >> THEN Passed
  ELSE IF Head(checks).t = "error" THEN Head(checks)
  ELSE FirstThrown(Tail(checks))
constructorChecks(merged) ==
  <<normalizeApiBaseUrl(merged["apiBaseUrl"]),
    normalizePdfBaseUrl(merged["pdfBaseUrl"]),
    assertIntegerConfig("timeoutMs", merged["timeoutMs"], Undef, FALSE),
    assertIntegerConfig("minIntervalMs", merged["minIntervalMs"], Num(0), TRUE),
    assertIntegerConfig("maxRetries", merged["maxRetries"], Num(0), TRUE),
    assertIntegerConfig("retryBaseDelayMs", merged["retryBaseDelayMs"], Num(0), TRUE),
    assertIntegerConfig("pageSize", merged["pageSize"], Num(1), FALSE)>>
\* this.config after a construction that passed every check
constructed(merged) ==
  [merged EXCEPT !["apiBaseUrl"] = normalizeApiBaseUrl(@).v,
                 !["pdfBaseUrl"] = normalizePdfBaseUrl(@).v]

\* new ArxivClient(config) for the client slot c
ArxivClient_new(c, config) ==
  /\ cfg[c] = NoConfig
  /\ BeginOp([name |-> "new", client |-> c, config |-> config])
  /\ LET merged == spread(defaultConfig, config)
         thrown == FirstThrown(constructorChecks(merged))
     IN IF thrown.t = "error"
        THEN /\ result' = thrown
             /\ UNCHANGED cfg
        ELSE /\ result' = Value(c)
             /\ cfg' = [cfg EXCEPT ![c] = constructed(merged)]
  /\ UNCHANGED <<env, cli, lastRun, envVars, pc, loc, retryVars, waitReturns, fetchStarts,
                 hist>>

\* lines 560-567: getConfig() of a constructed client
getConfig_call(c) ==
  /\ cfg[c] # NoConfig
  /\ pc = "idle"
  /\ op.name = "new"
  /\ op' = [name |-> "getConfig", client |-> c, config |-> op.config]
  /\ result' = Value(cfg[c])
  /\ UNCHANGED <<now, env, cli, cfg, lastRun, envVars, pc, ops, loc, retryVars, obsVars, hist>>

UrlValues == {Undef, NotUrl, Url("https", TRUE), Url("http", FALSE), Url("ftp", TRUE),
              Url("file", TRUE)}
IntegerValues == {Undef, NotFinite, Frac, Num(-1), Num(0), Num(1)}
ValuesOf(f) == IF f \in UrlFields THEN UrlValues ELSE IntegerValues
\* the partial configurations that give at most MaxGiven keys
GivenKeys == UNION {{<<f, v>> : v \in ValuesOf(f)} : f \in ConfigFields}
RECURSIVE GivingAtMost(_)
GivingAtMost(n) ==
  IF n = 0 THEN {[f \in ConfigFields |-> Absent]}
  ELSE LET fewer == GivingAtMost(n - 1)
       IN fewer \cup {[config EXCEPT ![key[1]] = key[2]] : config \in fewer, key \in GivenKeys}
RawConfigs == GivingAtMost(MaxGiven)

InitConstruct ==
  /\ InitCommon
  /\ cfg = [c \in Clients |-> NoConfig]
  /\ env = Env(ExactTimers, FewOutcomes, FullFeed, FALSE, 1)
  /\ files = << >>

NextConstruct ==
  \/ \E c \in Clients :
       /\ ops < env.maxOps
       /\ \E config \in RawConfigs : ArxivClient_new(c, config)
  \/ \E c \in Clients : getConfig_call(c)

SpecConstruct == InitConstruct /\ [][NextConstruct]_vars

\* the settings as the claim reads them: what was given, else the default
Setting(f) == IF op.config[f] = Absent THEN defaultConfig[f] ELSE op.config[f]
ValidUrlSetting(f) == Setting(f).t = "url" /\ Setting(f).scheme \in {"http", "https"}
PositiveInteger(f) == Setting(f).t = "int" /\ Setting(f).v >= 1
NonNegativeInteger(f) == Setting(f).t = "int" /\ Setting(f).v >= 0
ValidSettings ==
  /\ ValidUrlSetting("apiBaseUrl") /\ ValidUrlSetting("pdfBaseUrl")
  /\ PositiveInteger("timeoutMs") /\ PositiveInteger("pageSize")
  /\ NonNegativeInteger("minIntervalMs") /\ NonNegativeInteger("maxRetries")
  /\ NonNegativeInteger("retryBaseDelayMs")
Constructed == op.name \in {"new", "getConfig"} /\ pc = "idle"

\* C28: new ArxivClient(config) throws and creates no client exactly when a
\* base URL is not a valid http/https URL or a numeric setting is invalid
\* (timeoutMs, pageSize not a positive integer; minIntervalMs, maxRetries,
\* retryBaseDelayMs negative or not an integer); a client that is created
\* holds every number as it was given (or the default of an absent key) and
\* each URL with the scheme it was given, so nothing invalid is clamped or
\* replaced.
C28_ConstructorFailsFast ==
  Constructed =>
    /\ ~ValidSettings <=> (op.name = "new" /\ result.t = "error")
    /\ ~ValidSettings => cfg[op.client] = NoConfig
    /\ ValidSettings =>
         /\ cfg[op.client] # NoConfig
         /\ \A f \in IntegerFields : cfg[op.client][f] = Setting(f)
         /\ \A f \in UrlFields : cfg[op.client][f].scheme = Setting(f).scheme
         /\ op.name = "getConfig" => result.v = cfg[op.client]

\* a negative retry budget next to a valid page size is rejected
C28_Witness ==
  /\ op.name = "new"
  /\ pc = "idle"
  /\ op.config["maxRetries"] = Num(-1)
  /\ op.config["pageSize"] = Num(1)
  /\ result.t = "error"
  /\ result.e.message = "maxRetries must be a non-negative integer."


(***************************************************************************)
(* The order of the steps of one turn of the pagination loop               *)
(* (client.ts 838-866, 883-888), checked on the searches of SpecTtl        *)
(***************************************************************************)
\* the lookup of the running turn is over: the turn went on to the network
\* or to the decoding of a cached page
LookupDone == InSearch /\ pc \in {"network", "parse"}
\* the cache holds the page of the running turn: in the memory map, or in a
\* servable file of the cache directory
InCache ==
  /\ cfg[Self].cache
  /\ \/ Has(cache[Self], loc.url)
     \/ (diskConfigured(cfg[Self]) /\ Servable)
Stored == cache'[Self] # cache[Self] \/ disk' # disk

\* C29 as stated: in every turn of the pagination loop the rate limiter is
\* acquired before the cache is consulted, also when the page is then served
\* from the cache; so once the lookup of the i-th turn is over, wait() has
\* returned at least i times, and the network request and the store follow.
C29_OriginalWaitBeforeLookup ==
  /\ LookupDone => waits >= Len(hist.requests)
  /\ (InSearch /\ netCalls > 0) => waits >= 1

\* C29 amended: a turn consults the cache first; a page found there is
\* handed to the decoder without any wait on the rate limiter and without a
\* network call; only on a miss is requestWithRetry entered, each of whose
\* attempts starts with the wait; the store follows the response.
C29_LookupBeforeWait ==
  [][(InSearch /\ pc # "idle") =>
       /\ pc = "request" =>
            /\ rpc = "off"
            /\ InCache =>
                 (pc' = "parse" /\ rpc' = "off" /\ waits' = waits /\ netCalls' = netCalls)
            /\ ~InCache => (pc' = "network" /\ rpc' = turnStart /\ waits' = waits)
       /\ waits' # waits => (pc = "network" /\ pc' = "network")
       /\ netCalls' # netCalls => (pc = "network" /\ waits >= netCalls')
       /\ Stored => \/ (pc = "request" /\ InCache /\ disk' = disk)
                    \/ (pc = "network" /\ rpc = "returned" /\ pc' = "parse")
    ]_vars

\* the second search of a client is served from the cache and returns
\* without a wait on the rate limiter
C29_Witness ==
  /\ InSearch
  /\ ops = 2
  /\ pc = "idle"
  /\ result.t = "value"
  /\ waits = 0
  /\ netCalls = 0


(***************************************************************************)
(* What search returns of the pages it fetched (client.ts 643-677),        *)
(* checked on SpecSearch                                                   *)
(***************************************************************************)
RECURSIVE EntriesOfPages(_)
EntriesOfPages(n) ==
  IF n = 0 THEN << >> ELSE EntriesOfPages(n - 1) \o hist.pages[n].parsed.entries

\* C30: the entries of the result search returns are the entries of the
\* fetched pages, concatenated in the order the pages were requested, none
\* dropped, repeated or moved; totalResults and itemsPerPage are the ones
\* decoded from the first page, whatever the later pages report.
C30_EntriesConcatenated ==
  /\ (InSearch /\ pc # "idle") => loc.entries = EntriesOfPages(Len(hist.pages))
  /\ SearchReturned =>
       /\ Len(hist.pages) >= 1
       /\ Len(hist.pages) = Len(hist.requests)
       /\ \A i \in 1..Len(hist.pages) :
            hist.pages[i].requestStartIndex = hist.requests[i].start
       /\ result.v.entries = EntriesOfPages(Len(hist.pages))
       /\ result.v.totalResults = hist.pages[1].parsed.totalResults
       /\ result.v.itemsPerPage = hist.pages[1].parsed.itemsPerPage

\* two pages, the second reporting another total and another page size
C30_Witness ==
  /\ SearchReturned
  /\ Len(hist.pages) = 2
  /\ hist.pages[2].parsed.totalResults # hist.pages[1].parsed.totalResults
  /\ hist.pages[2].parsed.itemsPerPage # hist.pages[1].parsed.itemsPerPage
  /\ Len(hist.pages[1].parsed.entries) = 2
  /\ Len(result.v.entries) = 3


(***************************************************************************)
(* The requests of the pagination loop (client.ts 630-668), on SpecSearch  *)
(***************************************************************************)
CallerStart == IF IsDef(op.options.start) THEN op.options.start.v ELSE 0
\* entries returned by the first n pages
ReturnedBy(n) == SumOver(Got, n)

\* C31: the k-th page request of a search carries start = the caller's start
\* plus the number of entries the pages 1..k-1 returned, and max_results =
\* min(pageSize, maxResults - entries returned so far); the offsets the
\* responses report do not enter a later request.
C31_RequestOffsets ==
  InSearch =>
    /\ Len(hist.requests) - Len(hist.pages) \in {0, 1}
    /\ \A k \in 1..Len(hist.requests) :
         /\ hist.requests[k].start = CallerStart + ReturnedBy(k - 1)
         /\ hist.requests[k].max_results =
              Min(loc.pageSize, loc.maxResults - ReturnedBy(k - 1))

\* a second request after a short first page whose reported offset is not
\* the one that was asked
C31_Witness ==
  /\ InSearch
  /\ Len(hist.requests) = 2
  /\ CallerStart = 1
  /\ PageCount(1) = 1
  /\ hist.pages[1].parsed.startIndex # hist.requests[1].start
  /\ hist.requests[2].start = 2


(***************************************************************************)
(* Termination of search (client.ts 633-668): SpecSearch with the event    *)
(* loop running every step that stays enabled -- timers fire, responses    *)
(* and rejections arrive, continuations run                                *)
(***************************************************************************)
SearchSteps ==
  \/ search_page
  \/ request_lookup
  \/ request_store
  \/ search_parse
  \/ RateLimiter_wait
  \/ RateLimiter_wake
  \/ requestWithRetry_fetch
  \/ requestWithRetry_response
  \/ requestWithRetry_catch
  \/ requestWithRetry_backoff
SpecSearchFair == SpecSearch /\ WF_vars(SearchSteps)

SearchRunning == op.name = "search" /\ pc # "idle"
\* the loop went on after page i
WentOnAfter(i) == Len(hist.requests) > i
LoopBounded ==
  InSearch =>
    /\ Len(hist.requests) <= loc.maxResults
    /\ \A i \in 1..Len(hist.pages) :
         /\ PageCount(i) = 0 => ~WentOnAfter(i)
         /\ WentOnAfter(i) =>
              /\ loc.fetchAll
              /\ PageCount(i) >= 1
              /\ hist.requests[i + 1].max_results <= loc.maxResults - ReturnedBy(i)
    /\ pc = "loop" =>
         (loc.remaining = loc.maxResults - ReturnedBy(Len(hist.pages)) /\ loc.remaining > 0)

\* C32: a search whose requests all terminate terminates: a turn of the loop
\* either ends the loop or lowers the remaining count by the >= 1 entries of
\* its page, so no more than maxResults page requests are issued, no request
\* follows a page with zero entries, and the call returns or throws.
C32_SearchTerminates ==
  /\ []LoopBounded
  /\ (SearchRunning ~> (pc = "idle"))

\* a paginating search that made two requests and returned
C32_Witness ==
  /\ SearchReturned
  /\ loc.fetchAll
  /\ Len(hist.requests) = 2
  /\ PageCount(2) = 0


(***************************************************************************)
(* What a metadata request leaves in the two cache tiers (client.ts        *)
(* 851-865), on SpecFaults                                                 *)
(***************************************************************************)
\* request is about to take what requestWithRetry returned or threw
RequestSettles == MetadataOp /\ pc = "network" /\ rpc \in {"returned", "threw"}
\* requestWithRetry threw (a status that is not retried, the budget used up,
\* a transport error) or the body of the response could not be read
EndsInError == rresult.t = "error" \/ ~rresult.v.readable
LastStatus == tries[Len(tries)].status
\* the map differs from the old one at most in holding text under url
OnlyAdds(old, new, key, value) ==
  /\ DOMAIN new \subseteq (DOMAIN old) \cup {key}
  /\ \A k \in DOMAIN old : k # key => (k \in DOMAIN new /\ new[k] = old[k])
  /\ key \in DOMAIN new => (new[key] = value \/ (key \in DOMAIN old /\ new[key] = old[key]))

\* C33: a metadata request that ends in an error (a status that is not
\* retried, an exhausted retry budget, a transport error) leaves the memory
\* map and the cache directory as they were; what a request stores is the
\* text of a 2xx response, in the memory map under the request URL and in the
\* cache directory under the file name of that URL.
C33_ErrorsStoreNothing ==
  [][RequestSettles =>
       /\ EndsInError => (cache' = cache /\ disk' = disk)
       /\ ~EndsInError =>
            /\ ResponseOk(LastStatus)
            /\ cache'[Self][loc.url] = rresult.v.body
            /\ OnlyAdds(cache[Self], cache'[Self], loc.url, rresult.v.body)
            /\ \A c \in Clients : c # Self => cache'[c] = cache[c]
            /\ OnlyAdds(disk, disk', CachePath(cfg[Self].cacheDir, loc.url),
                        [payload |-> rresult.v.body, mtimeMs |-> now])
    ]_vars

\* a search ended with the error of its request and the caches are empty
C33_Witness ==
  /\ MetadataOp
  /\ pc = "idle"
  /\ result.t = "error"
  /\ netCalls >= 2
  /\ rresult.t = "error"
  /\ cache[Self] = << >>
  /\ disk = << >>


(***************************************************************************)
(* The memory tier (client.ts 838-849): two clients on one cache           *)
(* directory, three searches, so that a client can meet again a URL whose  *)
(* disk entry expired or was rewritten by the other client in between      *)
(***************************************************************************)
InitMemory ==
  /\ InitCommon
  /\ \E ttl \in {Undef, Num(0)} : cfg = [c \in Clients |-> CacheConfig(1, TRUE, "D", ttl)]
  /\ env = Env(ExactTimers, [statuses |-> {200}, errors |-> {"TypeError"}], FullFeed, FALSE, 3)
  /\ files = << >>

SpecMemory == InitMemory /\ [][NextTtl]_vars

AtLookup == InSearch /\ pc = "request"
InMemory == Has(cache[Self], loc.url)
Keeps(old, new) == \A k \in DOMAIN old : k \in DOMAIN new /\ new[k] = old[k]

\* C34: a disk hit enters the memory map of the client; a request for a URL
\* that is in the memory map returns the text held there, with no network
\* call and with the cache directory neither consulted nor changed, whatever
\* cacheTtlMs is and whatever the disk entry has become; an entry of the
\* memory map is never dropped or replaced.
C34_MemoryTierNeverExpires ==
  [][/\ \A c \in Clients : Keeps(cache[c], cache'[c])
     /\ (AtLookup /\ InMemory) =>
          /\ pc' = "parse"
          /\ loc'.text = cache[Self][loc.url]
          /\ rpc' = "off"
          /\ netCalls' = netCalls
          /\ waits' = waits
          /\ cache' = cache
          /\ disk' = disk
     /\ (AtLookup /\ ~InMemory /\ pc' = "parse") =>
          /\ Has(disk, EntryPath)
          /\ loc'.text = disk[EntryPath].payload
          /\ Has(cache'[Self], loc.url)
          /\ cache'[Self][loc.url] = disk[EntryPath].payload
    ]_vars

\* the third search is served from the memory map although the other client
\* has rewritten the disk entry with another text in between
C34_Witness ==
  /\ InSearch
  /\ ops = 3
  /\ pc = "parse"
  /\ netCalls = 0
  /\ loc.text = cache[Self][loc.url]
  /\ disk[EntryPath].payload # loc.text


(***************************************************************************)
(* A client with cache: false next to one with cache: true, both with the  *)
(* same cacheDir (client.ts 838-866): three searches of the same query     *)
(***************************************************************************)
InitNoCache ==
  /\ InitCommon
  /\ cfg = <<CacheConfig(1, TRUE, "D", Undef), CacheConfig(1, FALSE, "D", Undef)>>
  /\ env = Env(ExactTimers, DownloadOutcomes, FullFeed, FALSE, 3)
  /\ files = << >>

SpecNoCache == InitNoCache /\ [][NextTtl]_vars

CacheOff == MetadataOp /\ pc # "idle" /\ ~cfg[Self].cache
\* the search before this one was the same search by the same client
RepeatsOwnSearch ==
  /\ InSearch
  /\ hist.prev.name = "search"
  /\ hist.prev.ok
  /\ hist.prev.client = op.client
  /\ hist.prev.options = op.options
\* the pages so far came with the first attempt of their requests
NoAttemptFailed == netCalls = Len(hist.pages)

\* C35: with cache: false a client neither reads nor writes the memory map
\* or the cache directory, cacheDir set or not: every metadata request goes
\* to the network, whatever the directory holds, and a page is only ever the
\* body of a response just received; a repeated identical search makes its
\* requests again, with the same number of HTTP attempts when the provider
\* answers alike.
C35_CacheOffBypassesCaches ==
  /\ [][CacheOff =>
          /\ cache' = cache
          /\ disk' = disk
          /\ pc = "request" => (pc' = "network" /\ rpc' = turnStart)
          /\ (pc' = "parse" /\ pc # "parse") =>
               /\ pc = "network"
               /\ rpc = "returned"
               /\ netCalls > Len(hist.pages)
               /\ loc'.text = rresult.v.body
       ]_vars
  /\ []((SearchReturned /\ ~cfg[Self].cache) =>
          /\ cache[Self] = << >>
          /\ netCalls >= Len(hist.requests)
          /\ (RepeatsOwnSearch /\ NoAttemptFailed
                /\ hist.prev.calls = Len(hist.prev.requests)
                /\ Len(hist.requests) = Len(hist.prev.requests)) =>
               netCalls = hist.prev.calls)

\* the client without cache repeated its search, the directory holding the
\* page all along, and made its one HTTP attempt again
C35_Witness ==
  /\ SearchReturned
  /\ ~cfg[Self].cache
  /\ RepeatsOwnSearch
  /\ ops = 3
  /\ Has(disk, CachePath(cfg[Self].cacheDir, hist.requests[1]))
  /\ netCalls = 1
  /\ hist.prev.calls = 1


(***************************************************************************)
(* Transport failures in requestWithRetry (client.ts 923-936, 964-972)     *)
(***************************************************************************)
\* this step is the rejection of the attempt's fetch
AttemptThrows ==
  /\ rpc = "inflight"
  /\ Len(tries') = Len(tries) + 1
  /\ ~IsResponse(tries'[Len(tries')])
ThrownName == tries'[Len(tries')].error
Transport(name) == name \in {"AbortError", "TypeError"}
BackoffFloor(baseDelayMs, att) == Min(BackoffCapFactor * baseDelayMs, baseDelayMs * Pow2(att))

\* C36: an attempt that fails with an abort of the deadline timer or a
\* TypeError is followed, when attempts remain, by a sleep of the backoff
\* delay of that attempt and then by the next attempt; it uses up the same
\* attempt counter as a retried response, so at most maxRetries + 1 attempts
\* are made whatever mix of responses and transport failures occurs.  Any
\* other thrown error, and a transport failure of the last attempt, is
\* rethrown at once.
C36_TransportFailureRetried ==
  /\ [][/\ AttemptThrows =>
             IF Transport(ThrownName) /\ attempt < cfg[Self].maxRetries
             THEN /\ rpc' = "sleeping"
                  /\ timerAt' - now' >= BackoffFloor(cfg[Self].retryBaseDelayMs, attempt)
                  /\ timerAt' - now' <= BackoffFloor(cfg[Self].retryBaseDelayMs, attempt)
                                          + Max(cfg[Self].retryBaseDelayMs - 1, 0)
                  /\ lastError' = MkError(ThrownName, "fetch failed")
                  /\ netCalls' = netCalls
             ELSE /\ rpc' = "threw"
                  /\ rresult' = Thrown(MkError(ThrownName, "fetch failed"))
                  /\ netCalls' = netCalls
        /\ (rpc = "sleeping" /\ rpc' # "sleeping") =>
             /\ now' >= timerAt
             /\ attempt' = attempt + 1
             /\ rpc' = turnStart
       ]_vars
  /\ [](RetryPending =>
          /\ attempt = (IF rpc = "sleeping" THEN Len(tries) - 1 ELSE Len(tries))
          /\ attempt <= cfg[Self].maxRetries)

\* a TypeError and a 500 were both retried, and the third attempt, the last
\* of the budget of maxRetries = 2, was aborted and rethrown
C36_Witness ==
  /\ rpc = "threw"
  /\ cfg[Self].maxRetries = 2
  /\ Len(tries) = 3
  /\ \E i \in 1..2 : tries[i].error = "TypeError"
  /\ \E i \in 1..2 : tries[i].status = 500
  /\ tries[3].error = "AbortError"
  /\ rresult = Thrown(MkError("AbortError", "fetch failed"))


(***************************************************************************)
(* computeBackoffDelay (client.ts 988-993) on its own: the delay of an     *)
(* attempt, then the delay of the attempt after it                         *)
(***************************************************************************)
BackoffLoc(attemptIndex, jitter, before) ==
  [f |-> "backoff", attempt |-> attemptIndex, jitter |-> jitter, before |-> before]

computeBackoffDelay_call(a) ==
  /\ BeginOp([name |-> "computeBackoffDelay", client |-> 1])
  /\ \E jitter \in Jitters(cfg[1].retryBaseDelayMs) :
       /\ result' = Value(computeBackoffDelay(cfg[1].retryBaseDelayMs, a, jitter))
       /\ loc' = BackoffLoc(a, jitter, NoTimer)
  /\ pc' = "computed"
  /\ UNCHANGED <<env, cli, cfg, lastRun, envVars, retryVars, waitReturns, fetchStarts, hist>>

\* the same client computes the delay of the next attempt
computeBackoffDelay_next ==
  /\ pc = "computed"
  /\ \E jitter \in Jitters(cfg[1].retryBaseDelayMs) :
       /\ result' = Value(computeBackoffDelay(cfg[1].retryBaseDelayMs, loc.attempt + 1, jitter))
       /\ loc' = BackoffLoc(loc.attempt + 1, jitter, result.v - loc.jitter)
  /\ pc' = "idle"
  /\ UNCHANGED <<now, env, cli, cfg, lastRun, envVars, op, ops, retryVars, obsVars, hist>>

InitBackoff ==
  /\ InitCommon
  /\ \E b \in 0..MaxBase : cfg = [c \in Clients |-> RetryConfig(0, 0, b)]
  /\ env = Env(ExactTimers, FewOutcomes, FullFeed, FALSE, 1)
  /\ files = << >>

NextBackoff ==
  \/ \E a \in 0..MaxAttempt : computeBackoffDelay_call(a)
  \/ computeBackoffDelay_next

SpecBackoff == InitBackoff /\ [][NextBackoff]_vars

InBackoff == op.name = "computeBackoffDelay" /\ loc.f = "backoff"

\* C37: for a base delay b >= 0 and an attempt index a >= 0 the delay d lies
\* between e and e + max(b - 1, 0) with e = min(16*b, b*2^a); it is at most
\* 17*b, and 0 when b is 0; from one attempt to the next e doubles up to the
\* cap of 16*b and never decreases.
C37_BackoffBounds ==
  InBackoff =>
    LET b == cfg[1].retryBaseDelayMs
        a == loc.attempt
        d == result.v
        e == Min(16 * b, b * Pow2(a))
    IN /\ e <= d
       /\ d <= e + Max(b - 1, 0)
       /\ d <= 17 * b
       /\ b = 0 => d = 0
       /\ d - loc.jitter = e
       /\ e <= 16 * b
       /\ loc.before # NoTimer =>
            /\ loc.before <= e
            /\ e = Min(16 * b, 2 * loc.before)

\* base delay 3: the delay of attempt 5 is computed after that of attempt 4,
\* both at the cap of 48, with the largest jitter, 2
C37_Witness ==
  /\ InBackoff
  /\ cfg[1].retryBaseDelayMs = 3
  /\ loc.attempt = 5
  /\ loc.before = 48
  /\ result = Value(50)


(***************************************************************************)
(* The size of a SearchResult (client.ts 610-668)                          *)
(***************************************************************************)
\* maxResults as search resolves it: the explicit value, else the page size
ResolvedMaxResults ==
  IF IsDef(op.options.maxResults) THEN op.options.maxResults.v ELSE ResolvedPageSize
\* no page so far holds more entries than its request asked for
ProviderWithinRequests == \A i \in 1..Len(hist.pages) : Got[i] <= Asked[i]

\* C38: when no page holds more entries than the max_results of its request,
\* the entries accumulated by a search, and those of the SearchResult it
\* returns, are never more than the resolved maxResults, with or without
\* pagination.
C38_ResultWithinMaxResults ==
  (InSearch /\ ProviderWithinRequests) =>
    /\ Len(loc.entries) <= ResolvedMaxResults
    /\ SearchReturned =>
         /\ Len(result.v.entries) <= ResolvedMaxResults
         /\ Len(result.v.entries) = ReturnedBy(Len(hist.pages))

\* a paginated search for 3 results in pages of 1 returned exactly 3, each
\* of its three pages as large as was asked
C38_Witness ==
  /\ SearchReturned
  /\ ProviderWithinRequests
  /\ loc.fetchAll
  /\ ResolvedMaxResults = 3
  /\ Len(hist.pages) = 3
  /\ Len(result.v.entries) = 3

\* a search without pagination returned a page as large as was asked
C38_WitnessOnePage ==
  /\ SearchReturned
  /\ ProviderWithinRequests
  /\ ~loc.fetchAll
  /\ Len(result.v.entries) = ResolvedMaxResults


(***************************************************************************)
(* download (client.ts 773-808) on identifiers that share a destination:   *)
(* "a/b" and "a_b" both become a_b.pdf, "paper" and the invalid " " both   *)
(* paper.pdf                                                               *)
(***************************************************************************)
CollidingIds == {<<"a", "/", "b">>, <<"a", "_", "b">>, <<"p", "a", "p", "e", "r">>, <<" ">>}
CollidingLists == UNION {[1..n -> CollidingIds] : n \in 1..MaxIds}
CollideOutcomes == [statuses |-> {200}, errors |-> {"TypeError"}]

InitCollide ==
  /\ InitCommon
  /\ cfg = [c \in Clients |-> MkConfig(1, 1, 0, FALSE, "", Undef, 2)]
  /\ env = Env(ExactTimers, CollideOutcomes, FullFeed, TRUE, 1)
  /\ files \in {[path \in paths |-> OldFile] : paths \in {{}, {DestinationOf(<<"a", "_", "b">>)}}}

NextCollide ==
  \/ /\ ops < env.maxOps
     /\ \E ids \in CollidingLists, overwrite \in BOOLEAN : download_call(1, ids, overwrite)
  \/ download_item
  \/ download_write
  \/ download_return
  \/ RateLimiter_wait
  \/ RateLimiter_wake
  \/ requestWithRetry_fetch
  \/ requestWithRetry_response
  \/ requestWithRetry_catch
  \/ requestWithRetry_backoff

SpecCollide == InitCollide /\ [][NextCollide]_vars

Written(k) == hist.items[k].is # hist.items[k].was
SamePath(j, k) == loc.results[j].path = loc.results[k].path
\* no path is written twice, and no file that was there is written
WritesOncePerPath ==
  /\ \A k \in Processed : Written(k) => ~Existed(k)
  /\ \A j, k \in Processed : (j < k /\ SamePath(j, k)) => ~(Written(j) /\ Written(k))
\* item k comes after a downloaded item with the same destination
AfterDownloaded(k) ==
  \E j \in Processed : j < k /\ SamePath(j, k) /\ loc.results[j].status = "downloaded"

\* C39 as stated: within one download call with overwrite false no path is
\* written twice and no file that existed is written; of the identifiers
\* with the same destination the first that succeeds is "downloaded" and
\* every later one is "skipped" without an HTTP attempt.
C39_OriginalLaterSkipped ==
  (InDownload /\ ~op.overwrite) =>
    /\ WritesOncePerPath
    /\ \A k \in Processed :
         AfterDownloaded(k) => (loc.results[k].status = "skipped" /\ LeftAlone(k))

\* C39: within one download call with overwrite false no path is written
\* twice and no file that existed is written; of the identifiers with the
\* same destination the first that succeeds is "downloaded", and every
\* later one is left without an HTTP attempt and without a write:
\* "skipped" when its identifier is valid, "failed" when it is invalid.
C39_WritesOncePerPath ==
  (InDownload /\ ~op.overwrite) =>
    /\ WritesOncePerPath
    /\ \A k \in Processed :
         AfterDownloaded(k) =>
           /\ loc.results[k].status = (IF ValidId(k) THEN "skipped" ELSE "failed")
           /\ LeftAlone(k)
    /\ \A k \in Processed :
         loc.results[k].status = "downloaded" =>
           /\ Written(k)
           /\ \A j \in Processed : (j < k /\ SamePath(j, k)) => ~Written(j)

\* "a/b" was downloaded to a_b.pdf and "a_b", with the same destination,
\* was skipped without an HTTP attempt
C39_Witness ==
  /\ InDownload
  /\ pc = "idle"
  /\ ~op.overwrite
  /\ op.ids = <<<<"a", "/", "b">>, <<"a", "_", "b">>>>
  /\ result.v[1].status = "downloaded"
  /\ result.v[2].status = "skipped"
  /\ result.v[1].path = result.v[2].path
  /\ hist.items[2].calls = 0
  /\ files[result.v[2].path].id = <<"a", "/", "b">>


(***************************************************************************)
(* The throw after the loop of requestWithRetry (client.ts 883-940)        *)
(***************************************************************************)
\* the error thrown is the one of the attempt that settled last
OwnError ==
  /\ rresult.t = "error"
  /\ IF IsResponse(LastTry)
     THEN rresult.e = ResponseError(LastTry.status, StatusText(LastTry.status))
     ELSE rresult.e = MkError(LastTry.error, "fetch failed")

\* C40: for every maxRetries >= 0 the loop of requestWithRetry is left only
\* from inside an iteration: the test of the loop holds whenever it is
\* evaluated, a sleep is always followed by a further attempt, and the
\* iteration with attempt = maxRetries returns a response or throws the
\* error of that attempt; neither the generic "Request failed" error nor
\* the lastError of an earlier attempt reaches the caller.
C40_FallbackThrowUnreachable ==
  /\ [][/\ (rpc = "sleeping" /\ rpc' # "sleeping") =>
             /\ attempt' <= cfg[Self].maxRetries
             /\ rpc' = turnStart
        /\ (rpc' \in {"returned", "threw"} /\ rpc \notin {"returned", "threw"}) =>
             /\ rpc = "inflight"
             /\ Len(tries') = attempt + 1
        /\ (rpc = "inflight" /\ rpc' # "inflight" /\ attempt = cfg[Self].maxRetries) =>
             rpc' \in {"returned", "threw"}
       ]_vars
  /\ [](RetryPending => attempt <= cfg[Self].maxRetries)
  /\ [](rpc = "threw" =>
          /\ OwnError
          /\ rresult.e.message # "Request failed"
          /\ (lastError # NoError /\ IsResponse(LastTry)) => rresult.e # lastError)

\* maxRetries = 2: a TypeError and then a 500 were retried, and the third
\* attempt, with attempt = maxRetries, threw its own 599 while lastError
\* still held the TypeError
C40_Witness ==
  /\ rpc = "threw"
  /\ cfg[Self].maxRetries = 2
  /\ attempt = 2
  /\ tries[1].error = "TypeError"
  /\ tries[2].status = 500
  /\ tries[3].status = 599
  /\ lastError = MkError("TypeError", "fetch failed")
  /\ rresult = Thrown(ResponseError(599, StatusText(599)))

=============================================================================
